---------------------------- MODULE Spec2Model ----------------------------
(***************************************************************************)
(* A model of the MCP-Doc document tools (src/src/mcp_doc).                *)
(*                                                                         *)
(* The document is the body of a python-docx Document: an ordered          *)
(* sequence of block elements, each a paragraph (w:p) or a table (w:tbl).  *)
(* The trailing w:sectPr of the body is left out: doc.add_paragraph()      *)
(* places a new paragraph before it, and every index the tools hand to     *)
(* body.insert() is at most the number of blocks, so it is never           *)
(* addressed.                                                              *)
(*                                                                         *)
(* Texts are sequences of one-character strings.  All indices that are     *)
(* arguments of a tool are Python indices (0-based); sequences of the      *)
(* model are 1-based, so Python's x[i] is x[i + 1] here.                   *)
(***************************************************************************)
EXTENDS Integers, Sequences, FiniteSets, TLC

VARIABLES
    current_document,    \* processor.current_document: NoDocument or a Document
    current_file_path,   \* processor.current_file_path
    state_file,          \* the file CURRENT_DOC_FILE: NoStateFile or what it holds
    phase,               \* where the process is: "start", "constructed" (the module
                         \* processor has been imported), "serving", "stopped"
    written,             \* the documents the process has saved, by path
    pre_document,        \* history: the document the last command ran on (NoDocument
                         \* when it loaded one from a file)
    last,                \* history: the last command, its arguments and result
    steps                \* history: number of commands run so far

vars == <<current_document, current_file_path, state_file, phase, written,
          pre_document, last, steps>>

---------------------------------------------------------------------------
(* Bounds of the model *)

\* commands run in one session
MaxSteps == 2
\* blocks of a document file
MaxBlocks == 3

---------------------------------------------------------------------------
(* Sequences *)

Min(a, b) == IF a <= b THEN a ELSE b
Max(a, b) == IF a >= b THEN a ELSE b

\* s without its element at (1-based) position i
RemoveAt(s, i) == [j \in 1..(Len(s) - 1) |-> IF j < i THEN s[j] ELSE s[j + 1]]

\* s with x placed so that it becomes the element at (1-based) position i
InsertAt(s, i, x) ==
    [j \in 1..(Len(s) + 1) |-> IF j < i THEN s[j] ELSE IF j = i THEN x ELSE s[j - 1]]

\* Python's s[a:b] for 0 <= a, 0 <= b (0-based, b excluded, clipped to s)
Slice(s, a, b) == SubSeq(s, a + 1, Min(b, Len(s)))

\* the (1-based) positions of the blocks of s of the given kind, ascending
RECURSIVE KindPositions(_, _, _)
KindPositions(s, kind, i) ==
    IF i > Len(s) THEN <<>>
    ELSE (IF s[i].kind = kind THEN <<i>> ELSE <<>>) \o KindPositions(s, kind, i + 1)

RECURSIVE Flatten(_)
Flatten(ss) == IF ss = <<>> THEN <<>> ELSE Head(ss) \o Flatten(Tail(ss))

---------------------------------------------------------------------------
(* Python str: `in`, str.replace, str.count *)

MatchesAt(text, keyword, i) ==
    /\ i + Len(keyword) - 1 <= Len(text)
    /\ \A j \in 1..Len(keyword) : text[i + j - 1] = keyword[j]

\* keyword in text
Contains(keyword, text) == \E i \in 1..(Len(text) + 1) : MatchesAt(text, keyword, i)

\* text.replace(keyword, replace_with), scanning from the left without overlap;
\* an empty keyword matches before every character and at the end
RECURSIVE ReplaceFrom(_, _, _, _)
ReplaceFrom(text, keyword, replace_with, i) ==
    IF i > Len(text) THEN (IF keyword = <<>> THEN replace_with ELSE <<>>)
    ELSE IF keyword = <<>>
        THEN replace_with \o <<text[i]>> \o ReplaceFrom(text, keyword, replace_with, i + 1)
    ELSE IF MatchesAt(text, keyword, i)
        THEN replace_with \o ReplaceFrom(text, keyword, replace_with, i + Len(keyword))
    ELSE <<text[i]>> \o ReplaceFrom(text, keyword, replace_with, i + 1)

StrReplace(text, keyword, replace_with) == ReplaceFrom(text, keyword, replace_with, 1)

\* text.count(keyword): non-overlapping occurrences; len(text) + 1 for the empty keyword
RECURSIVE CountFrom(_, _, _)
CountFrom(text, keyword, i) ==
    IF keyword = <<>> THEN Len(text) + 1
    ELSE IF i > Len(text) THEN 0
    ELSE IF MatchesAt(text, keyword, i) THEN 1 + CountFrom(text, keyword, i + Len(keyword))
    ELSE CountFrom(text, keyword, i + 1)

StrCount(text, keyword) == CountFrom(text, keyword, 1)

---------------------------------------------------------------------------
(* python-docx objects *)

\* the page margins of the first section, in EMU, as python-docx's default
\* template has them (1 inch and 1.25 inch)
DefaultMargins == [top |-> 914400, bottom |-> 914400, left |-> 1143000, right |-> 1143000]

\* processor.current_document: None, or a Document with its body and the margins
\* of its first section
NoDocument == [open |-> FALSE, body |-> <<>>, margins |-> DefaultMargins]
Document(body) == [open |-> TRUE, body |-> body, margins |-> DefaultMargins]

\* a run without character formatting (every attribute inherited)
DefaultFmt ==
    [bold |-> "None", italic |-> "None", underline |-> "None",
     font_size |-> "None", font_name |-> "None", color |-> "None"]

Run(text, fmt) == [text |-> text, fmt |-> fmt]

\* a paragraph: style name, alignment, runs
Para(style, alignment, runs) ==
    [kind |-> "p", style |-> style, alignment |-> alignment, runs |-> runs]

\* Paragraph.text (getter): the texts of the runs, concatenated
ParaText(p) == Flatten([i \in 1..Len(p.runs) |-> p.runs[i].text])

\* Paragraph.text = text (setter): the runs are removed and one plain run is added;
\* style and alignment are kept
SetParaText(p, text) == [p EXCEPT !.runs = <<Run(text, DefaultFmt)>>]

IsParagraph(b) == b.kind = "p"
IsTable(b) == b.kind = "tbl"

\* body positions (1-based) of the paragraphs / tables, in document order
ParagraphPositions(body) == KindPositions(body, "p", 1)
TablePositions(body) == KindPositions(body, "tbl", 1)

\* doc.paragraphs / doc.tables
Paragraphs(body) == SelectSeq(body, IsParagraph)
Tables(body) == SelectSeq(body, IsTable)

ParagraphTexts(body) == [i \in 1..Len(Paragraphs(body)) |-> ParaText(Paragraphs(body)[i])]

\* the blocks of body whose (1-based) position is not in drop, in order
RECURSIVE WithoutPositions(_, _, _)
WithoutPositions(body, drop, i) ==
    IF i > Len(body) THEN <<>>
    ELSE (IF i \in drop THEN <<>> ELSE <<body[i]>>) \o WithoutPositions(body, drop, i + 1)

\* a slip in RemoveParagraph: the index is taken as a body index
RemoveParagraphByBodyIndex(body, index) == WithoutPositions(body, {index + 1}, 1)

\* p.getparent().remove(p) for the paragraph doc.paragraphs[index]
RemoveParagraph(body, index) ==
    WithoutPositions(body, {ParagraphPositions(body)[index + 1]}, 1)

---------------------------------------------------------------------------
(* Styles *)

\* the style names of the model, in Python's string order (str <=)
StyleOrder == <<"Heading 1", "Heading 10", "Heading 2", "Normal">>

StyleRank(name) == CHOOSE i \in 1..Len(StyleOrder) : StyleOrder[i] = name

\* a <= b on style names
StyleNameLeq(a, b) == StyleRank(a) <= StyleRank(b)

\* name.startswith('Heading')
StartsWithHeading(name) == name \in {"Heading 1", "Heading 10", "Heading 2"}

\* what `if value:` accepts of a captured run attribute
Truthy(value) == value \notin {"None", "0", ""}

---------------------------------------------------------------------------
(* replace_section / edit_section_by_keyword: shared steps *)

\* the first paragraph index i (0-based) with keyword in paragraph.text, or -1
FirstParagraphContaining(body, keyword) ==
    LET texts == ParagraphTexts(body)
        hits == {i \in 1..Len(texts) : Contains(keyword, texts[i])}
    IN IF hits = {} THEN -1
       ELSE (CHOOSE i \in hits : \A j \in hits : i <= j) - 1

\* style_info of one paragraph: its style, alignment and the format of each run
StyleInfo(p) ==
    [style |-> p.style, alignment |-> p.alignment,
     runs |-> [i \in 1..Len(p.runs) |-> p.runs[i].fmt]]

DefaultStyleInfo == [style |-> "None", alignment |-> "None", runs |-> <<>>]

\* a slip in OriginalStyles: the list is filled up with the default style_info
OriginalStyles_PadDefault(body, start, end, n) ==
    LET paras == Paragraphs(body)
        taken == Max(0, Min(end, start + n) - start)
    IN [j \in 1..Max(n, taken) |->
            IF j <= taken THEN StyleInfo(paras[start + j]) ELSE DefaultStyleInfo]

\* original_styles: one style_info per paragraph of range(start, min(end, start + n)),
\* then the last one (or the default one) repeated up to n entries
OriginalStyles(body, start, end, n) ==
    LET paras == Paragraphs(body)
        taken == Max(0, Min(end, start + n) - start)
    IN [j \in 1..Max(n, taken) |->
            IF j <= taken THEN StyleInfo(paras[start + j])
            ELSE IF taken > 0 THEN StyleInfo(paras[start + taken])
            ELSE DefaultStyleInfo]

\* the format given to the single run of a new paragraph from the first captured run
AppliedRunFormat(run_info) ==
    [bold |-> run_info.bold, italic |-> run_info.italic, underline |-> run_info.underline,
     font_size |-> IF Truthy(run_info.font_size) THEN run_info.font_size ELSE "None",
     font_name |-> IF Truthy(run_info.font_name) THEN run_info.font_name ELSE "None",
     color |-> IF Truthy(run_info.color) THEN run_info.color ELSE "None"]

\* the paragraph built for one line of new_content from its style_info
NewParagraph(content, style_info) ==
    Para(IF style_info.style # "None" THEN style_info.style ELSE "Normal",
         style_info.alignment,
         IF style_info.runs # <<>>
            THEN <<Run(content, AppliedRunFormat(style_info.runs[1]))>>
            ELSE <<Run(content, DefaultFmt)>>)

\* the character U+0000 in a text, which no XML text can hold
Nul == "NUL"

\* p.add_run(content) / p.text = content store the text in the XML tree, and lxml
\* raises ValueError for a string with a NUL or control character
XmlCompatible(text) == \A i \in 1..Len(text) : text[i] # Nul

\* the paragraph the insertion loop leaves at the end of the document when storing
\* its text raises: doc.add_paragraph() appended it, its style and alignment are
\* set, and its run is there without text and without the captured format
FailedParagraph(style_info) ==
    Para(IF style_info.style # "None" THEN style_info.style ELSE "Normal",
         style_info.alignment, <<Run(<<>>, DefaultFmt)>>)

\* "Delete from end to avoid index change": the paragraphs start..end-1 are removed
DeleteParagraphRange(body, start, end) ==
    LET pos == ParagraphPositions(body)
    IN WithoutPositions(body, {pos[i + 1] : i \in start..(end - 1)}, 1)

\* doc._body._body.remove(doc.paragraphs[-1]._p): the last paragraph of the body
RemoveLastParagraph(body) ==
    LET pos == ParagraphPositions(body)
    IN WithoutPositions(body, {pos[Len(pos)]}, 1)

\* One turn of the insertion loop: doc.add_paragraph() appends p, body.insert(
\* insert_position, p) moves p in front of the body child at that index (an element
\* has one parent, so nothing stays behind at the end; when the child at that index
\* is p itself nothing moves), and then the body's last paragraph is removed
InsertOne(body, insert_position, p) ==
    RemoveLastParagraph(InsertAt(body, insert_position + 1, p))

\* the insertion loop over reversed(new_content), k lines still to insert; it ends
\* where a line cannot be stored, with the paragraph made for it left at the end
RECURSIVE InsertNewContent(_, _, _, _, _)
InsertNewContent(body, insert_position, new_content, original_styles, k) ==
    IF k = 0 THEN body
    ELSE IF ~XmlCompatible(new_content[k])
    THEN Append(body, FailedParagraph(original_styles[k]))
    ELSE InsertNewContent(
            InsertOne(body, insert_position, NewParagraph(new_content[k], original_styles[k])),
            insert_position, new_content, original_styles, k - 1)

\* what the command returns after the loops: the exception of a line that could
\* not be stored is caught and reported
ReplaceResult(new_content) ==
    IF \A k \in 1..Len(new_content) : XmlCompatible(new_content[k]) THEN "ok" ELSE "failed"

\* a slip in ReplaceRange: when a line cannot be stored the document is put back
\* as it was
ReplaceRange_RolledBack(body, start, end, new_content) ==
    LET original_styles == OriginalStyles(body, start, end, Len(new_content))
        deleted == DeleteParagraphRange(body, start, end)
    IN IF ReplaceResult(new_content) = "failed" THEN body
       ELSE InsertNewContent(deleted, start, new_content, original_styles, Len(new_content))

\* capture, delete range(start, end), insert new_content at insert_position = start
ReplaceRange(body, start, end, new_content) ==
    LET original_styles == OriginalStyles(body, start, end, Len(new_content))
        deleted == DeleteParagraphRange(body, start, end)
    IN InsertNewContent(deleted, start, new_content, original_styles, Len(new_content))

---------------------------------------------------------------------------
(* replace_section *)

\* title_index
TitleIndex(body, section_title) == FirstParagraphContaining(body, section_title)

\* a slip in SectionEndIndex: every heading after the title ends the section
SectionEndIndex_AnyHeading(body, title_index) ==
    LET paras == Paragraphs(body)
        ends == {i \in (title_index + 1)..(Len(paras) - 1) : StartsWithHeading(paras[i + 1].style)}
    IN IF ends = {} THEN Len(paras) ELSE CHOOSE i \in ends : \A j \in ends : i <= j

\* end_index: the first paragraph after the title whose style name starts with
\* 'Heading' and is <= the title's style name (or is the title's style), else the end
SectionEndIndex(body, title_index) ==
    LET paras == Paragraphs(body)
        title_style == paras[title_index + 1].style
        ends == {i \in (title_index + 1)..(Len(paras) - 1) :
                    /\ StartsWithHeading(paras[i + 1].style)
                    /\ \/ StyleNameLeq(paras[i + 1].style, title_style)
                       \/ paras[i + 1].style = title_style}
    IN IF ends = {} THEN Len(paras) ELSE CHOOSE i \in ends : \A j \in ends : i <= j

\* start_delete
StartDelete(title_index, preserve_title) == title_index + (IF preserve_title THEN 1 ELSE 0)

\* a slip in replace_section: a title that is not found is taken as "append"
replace_section_MissingTitleAppends(body, section_title, new_content, preserve_title) ==
    LET title_index == TitleIndex(body, section_title)
    IN IF title_index = -1
       THEN [res |-> "ok",
             doc |-> body \o [k \in 1..Len(new_content) |->
                                 NewParagraph(new_content[k], DefaultStyleInfo)]]
       ELSE [res |-> "ok",
             doc |-> ReplaceRange(body, StartDelete(title_index, preserve_title),
                                  SectionEndIndex(body, title_index), new_content)]

\* the command on an open document: its result and the document it leaves
replace_section(body, section_title, new_content, preserve_title) ==
    LET title_index == TitleIndex(body, section_title)
    IN IF title_index = -1
       THEN [res |-> "title_not_found", doc |-> body]
       ELSE [res |-> ReplaceResult(new_content),
             doc |-> ReplaceRange(body, StartDelete(title_index, preserve_title),
                                  SectionEndIndex(body, title_index), new_content)]

---------------------------------------------------------------------------
(* edit_section_by_keyword *)

KeywordStartIndex(keyword_index, section_range) == Max(0, keyword_index - section_range)

\* a slip in KeywordEndIndex: the + 1 of the end of the range is missing
KeywordEndIndex_Short(body, keyword_index, section_range) ==
    Min(Len(Paragraphs(body)), keyword_index + section_range)

KeywordEndIndex(body, keyword_index, section_range) ==
    Min(Len(Paragraphs(body)), keyword_index + section_range + 1)

edit_section_by_keyword(body, keyword, new_content, section_range) ==
    LET keyword_index == FirstParagraphContaining(body, keyword)
    IN IF keyword_index = -1
       THEN [res |-> "keyword_not_found", doc |-> body]
       ELSE [res |-> ReplaceResult(new_content),
             doc |-> ReplaceRange(body, KeywordStartIndex(keyword_index, section_range),
                                  KeywordEndIndex(body, keyword_index, section_range),
                                  new_content)]

---------------------------------------------------------------------------
(* delete_paragraph / delete_text *)

delete_paragraph(body, paragraph_index) ==
    IF paragraph_index < 0 \/ paragraph_index >= Len(Paragraphs(body))
    THEN [res |-> "paragraph_index_out_of_range", doc |-> body]
    ELSE [res |-> "ok", doc |-> RemoveParagraph(body, paragraph_index)]

\* body with the text of doc.paragraphs[index] set
SetParagraphText(body, index, text) ==
    LET at == ParagraphPositions(body)[index + 1]
    IN [body EXCEPT ![at] = SetParaText(body[at], text)]

\* a slip in delete_text: an empty range (end_pos = start_pos) is let through
delete_text_EmptyRangeAllowed(body, paragraph_index, start_pos, end_pos) ==
    IF paragraph_index < 0 \/ paragraph_index >= Len(Paragraphs(body))
    THEN [res |-> "paragraph_index_out_of_range", doc |-> body]
    ELSE LET text == ParagraphTexts(body)[paragraph_index + 1]
         IN IF start_pos < 0 \/ start_pos >= Len(text)
            THEN [res |-> "start_position_out_of_range", doc |-> body]
            ELSE IF end_pos < start_pos \/ end_pos > Len(text)
            THEN [res |-> "end_position_invalid", doc |-> body]
            ELSE [res |-> "ok",
                  doc |-> SetParagraphText(body, paragraph_index,
                              Slice(text, 0, start_pos) \o Slice(text, end_pos, Len(text)))]

\* a slip in delete_text: the character at end_pos is deleted as well
delete_text_EndInclusive(body, paragraph_index, start_pos, end_pos) ==
    IF paragraph_index < 0 \/ paragraph_index >= Len(Paragraphs(body))
    THEN [res |-> "paragraph_index_out_of_range", doc |-> body]
    ELSE LET text == ParagraphTexts(body)[paragraph_index + 1]
         IN IF start_pos < 0 \/ start_pos >= Len(text)
            THEN [res |-> "start_position_out_of_range", doc |-> body]
            ELSE IF end_pos <= start_pos \/ end_pos > Len(text)
            THEN [res |-> "end_position_invalid", doc |-> body]
            ELSE [res |-> "ok",
                  doc |-> SetParagraphText(body, paragraph_index,
                              Slice(text, 0, start_pos) \o Slice(text, end_pos + 1, Len(text)))]

delete_text(body, paragraph_index, start_pos, end_pos) ==
    IF paragraph_index < 0 \/ paragraph_index >= Len(Paragraphs(body))
    THEN [res |-> "paragraph_index_out_of_range", doc |-> body]
    ELSE LET text == ParagraphTexts(body)[paragraph_index + 1]
         IN IF start_pos < 0 \/ start_pos >= Len(text)
            THEN [res |-> "start_position_out_of_range", doc |-> body]
            ELSE IF end_pos <= start_pos \/ end_pos > Len(text)
            THEN [res |-> "end_position_invalid", doc |-> body]
            ELSE [res |-> "ok",
                  doc |-> SetParagraphText(body, paragraph_index,
                              Slice(text, 0, start_pos) \o Slice(text, end_pos, Len(text)))]

---------------------------------------------------------------------------
(* Tables (python-docx)                                                    *)
(*                                                                         *)
(* A table is its w:tblPr children (props), the number of w:gridCol of its *)
(* w:tblGrid (gridCols) and its rows (w:tr), each a sequence of cells      *)
(* (w:tc) holding paragraphs, a gridSpan and a vMerge.  bare says that the *)
(* element has neither a w:tblPr nor a w:tblGrid child.                    *)

Tc(paras, grid_span, vMerge) == [paras |-> paras, grid_span |-> grid_span, vMerge |-> vMerge]

Table(props, gridCols, rows) ==
    [kind |-> "tbl", props |-> props, gridCols |-> gridCols, bare |-> FALSE, rows |-> rows]

\* a paragraph without runs, as a new cell holds
EmptyP == Para("Normal", "None", <<>>)

\* a cell holding one paragraph with one plain run, as `cell.text = text` leaves it
TextCell(text) == Tc(<<Para("Normal", "None", <<Run(text, DefaultFmt)>>)>>, 1, "None")

\* the character between the paragraphs of a cell in cell.text
Newline == "\n"

\* "\n".join(texts)
RECURSIVE JoinLines(_)
JoinLines(texts) ==
    IF texts = <<>> THEN <<>>
    ELSE IF Len(texts) = 1 THEN texts[1]
    ELSE texts[1] \o <<Newline>> \o JoinLines(Tail(texts))

\* _Cell.text (getter)
CellText(tc) == JoinLines([i \in 1..Len(tc.paras) |-> ParaText(tc.paras[i])])

\* no cell of the table is part of a merge
Unmerged(t) ==
    \A r \in 1..Len(t.rows) : \A k \in 1..Len(t.rows[r]) :
        t.rows[r][k].grid_span = 1 /\ t.rows[r][k].vMerge = "None"

\* the grid column (0-based) at which the k-th w:tc of a row starts
RECURSIVE GridOffset(_, _)
GridOffset(row, k) == IF k = 1 THEN 0 ELSE GridOffset(row, k - 1) + row[k - 1].grid_span

\* the w:tc of a row that covers grid column c (0-based)
TcAtGridCol(row, c) ==
    CHOOSE k \in 1..Len(row) : GridOffset(row, k) <= c /\ c < GridOffset(row, k) + row[k].grid_span

\* The cell a (row r, w:tc k) position stands for: a vMerge="continue" w:tc is
\* represented by the cell above it.  r and k are 1-based; the result is <<r, k>>
RECURSIVE CellOwner(_, _, _)
CellOwner(t, r, k) ==
    IF t.rows[r][k].vMerge = "continue" /\ r > 1
    THEN CellOwner(t, r - 1, TcAtGridCol(t.rows[r - 1], GridOffset(t.rows[r], k)))
    ELSE <<r, k>>

\* row.cells of row r (1-based): one entry per grid column, a merged cell repeated
RowCells(t, r) ==
    LET row == t.rows[r]
        width == GridOffset(row, Len(row) + 1)
    IN [c \in 1..width |-> CellOwner(t, r, TcAtGridCol(row, c - 1))]

\* every row spans the grid and no vMerge="continue" cell is in the top row:
\* row.cells and table.cell() are then defined for every position
WellFormed(t) ==
    /\ ~t.bare
    /\ \A r \in 1..Len(t.rows) : GridOffset(t.rows[r], Len(t.rows[r]) + 1) = t.gridCols
    /\ Len(t.rows) > 0 => \A k \in 1..Len(t.rows[1]) : t.rows[1][k].vMerge # "continue"

\* body with doc.tables[table_index] replaced by t
SetTable(body, table_index, t) ==
    [body EXCEPT ![TablePositions(body)[table_index + 1]] = t]

---------------------------------------------------------------------------
(* delete_table_row *)

\* a slip in delete_table_row: the row after row_index goes (or the last one)
delete_table_row_NextRow(body, table_index, row_index) ==
    IF Tables(body) = <<>>
    THEN [res |-> "no_tables", doc |-> body]
    ELSE IF table_index < 0 \/ table_index >= Len(Tables(body))
    THEN [res |-> "table_index_out_of_range", doc |-> body]
    ELSE LET table == Tables(body)[table_index + 1]
         IN IF row_index < 0 \/ row_index >= Len(table.rows)
            THEN [res |-> "row_index_out_of_range", doc |-> body]
            ELSE [res |-> "ok",
                  doc |-> SetTable(body, table_index,
                              [table EXCEPT !.rows =
                                  RemoveAt(table.rows, Min(row_index + 2, Len(table.rows)))])]

delete_table_row(body, table_index, row_index) ==
    IF Tables(body) = <<>>
    THEN [res |-> "no_tables", doc |-> body]
    ELSE IF table_index < 0 \/ table_index >= Len(Tables(body))
    THEN [res |-> "table_index_out_of_range", doc |-> body]
    ELSE LET table == Tables(body)[table_index + 1]
         IN IF row_index < 0 \/ row_index >= Len(table.rows)
            THEN [res |-> "row_index_out_of_range", doc |-> body]
            ELSE [res |-> "ok",
                  doc |-> SetTable(body, table_index,
                              [table EXCEPT !.rows = RemoveAt(table.rows, row_index + 1)])]

---------------------------------------------------------------------------
(* merge_table_cells *)

\* tc._is_empty: a single paragraph without runs
TcIsEmpty(tc) == Len(tc.paras) = 1 /\ tc.paras[1].runs = <<>>

\* _remove_trailing_empty_p
RemoveTrailingEmptyP(paras) ==
    IF paras # <<>> /\ paras[Len(paras)].runs = <<>> THEN SubSeq(paras, 1, Len(paras) - 1)
    ELSE paras

\* source._move_content_to(top) seen from top: the paragraphs top holds afterwards
MoveContentTo(top_paras, source) ==
    IF TcIsEmpty(source) THEN top_paras
    ELSE RemoveTrailingEmptyP(top_paras) \o source.paras

\* the paragraphs of the top-left cell once the cells sources[1..n] moved their content
RECURSIVE GatherContent(_, _, _)
GatherContent(top_paras, sources, n) ==
    IF n = 0 THEN top_paras
    ELSE MoveContentTo(GatherContent(top_paras, sources, n - 1), sources[n])

\* start_cell.merge(end_cell) on a table without earlier merges: in every row of the
\* rectangle the cells of columns start_col..end_col become one w:tc of that
\* gridSpan; their content moves, row by row, into the top-left cell, and the
\* cells below it are vMerge="continue" cells holding one empty paragraph
MergeCells(table, start_row, start_col, end_row, end_col) ==
    LET \* the rectangle the two cells span, whichever of them is the upper or left one
        top_row == Min(start_row, end_row)
        left_col == Min(start_col, end_col)
        width == Max(start_col, end_col) - left_col + 1
        height == Max(start_row, end_row) - top_row + 1
        \* the cells of the rectangle other than the top-left one, row by row
        sources == [n \in 1..(width * height - 1) |->
                        table.rows[top_row + 1 + (n \div width)][left_col + 1 + (n % width)]]
        top == table.rows[top_row + 1][left_col + 1]
        top_paras == GatherContent(top.paras, sources, width * height - 1)
        merged(r) ==
            IF r = top_row + 1
            THEN Tc(top_paras, width, IF height = 1 THEN "None" ELSE "restart")
            ELSE Tc(<<EmptyP>>, width, "continue")
        newRow(r) ==
            LET row == table.rows[r]
            IN SubSeq(row, 1, left_col) \o <<merged(r)>>
                 \o SubSeq(row, left_col + width + 1, Len(row))
    IN [table EXCEPT !.rows =
            [r \in 1..Len(table.rows) |->
                IF top_row + 1 <= r /\ r <= top_row + height THEN newRow(r) ELSE table.rows[r]]]

\* a slip in the checks of merge_table_cells: the end corner is only held to the
\* table's bounds, not to the start corner
MergeCheckEndNotBelowStartDropped(body, table_index, start_row, start_col, end_row, end_col) ==
    IF Tables(body) = <<>> THEN "no_tables"
    ELSE IF table_index < 0 \/ table_index >= Len(Tables(body)) THEN "table_index_out_of_range"
    ELSE LET table == Tables(body)[table_index + 1]
         IN IF start_row < 0 \/ start_row >= Len(table.rows) THEN "start_row_index_out_of_range"
            ELSE IF table.bare THEN "failed"
            ELSE IF start_col < 0 \/ start_col >= table.gridCols
                THEN "start_column_index_out_of_range"
            ELSE IF end_row < 0 \/ end_row >= Len(table.rows) THEN "end_row_index_invalid"
            ELSE IF end_col < 0 \/ end_col >= table.gridCols THEN "end_column_index_invalid"
            ELSE "pass"

\* the checks of merge_table_cells, in the order of the code; "pass" when all pass.
\* len(table.columns) reads w:tblGrid and raises when the table has none
MergeCheck(body, table_index, start_row, start_col, end_row, end_col) ==
    IF Tables(body) = <<>> THEN "no_tables"
    ELSE IF table_index < 0 \/ table_index >= Len(Tables(body)) THEN "table_index_out_of_range"
    ELSE LET table == Tables(body)[table_index + 1]
         IN IF start_row < 0 \/ start_row >= Len(table.rows) THEN "start_row_index_out_of_range"
            ELSE IF table.bare THEN "failed"
            ELSE IF start_col < 0 \/ start_col >= table.gridCols
                THEN "start_column_index_out_of_range"
            ELSE IF end_row < start_row \/ end_row >= Len(table.rows) THEN "end_row_index_invalid"
            ELSE IF end_col < start_col \/ end_col >= table.gridCols
                THEN "end_column_index_invalid"
            ELSE "pass"

merge_table_cells(body, table_index, start_row, start_col, end_row, end_col) ==
    LET check == MergeCheck(body, table_index, start_row, start_col, end_row, end_col)
    IN IF check # "pass" THEN [res |-> check, doc |-> body]
       ELSE [res |-> "ok",
             doc |-> SetTable(body, table_index,
                         MergeCells(Tables(body)[table_index + 1],
                                    start_row, start_col, end_row, end_col))]

---------------------------------------------------------------------------
(* split_table *)

\* a slip in the checks of split_table: the last row is accepted as row_index
SplitCheckLastRowAllowed(body, table_index, row_index) ==
    IF Tables(body) = <<>> THEN "no_tables"
    ELSE IF table_index < 0 \/ table_index >= Len(Tables(body)) THEN "table_index_out_of_range"
    ELSE IF row_index < 0 \/ row_index >= Len(Tables(body)[table_index + 1].rows)
        THEN "row_index_invalid"
    ELSE "pass"

\* the checks of split_table that return a message; "pass" when all pass
SplitCheck(body, table_index, row_index) ==
    IF Tables(body) = <<>> THEN "no_tables"
    ELSE IF table_index < 0 \/ table_index >= Len(Tables(body)) THEN "table_index_out_of_range"
    ELSE IF row_index < 0 \/ row_index >= Len(Tables(body)[table_index + 1].rows) - 1
        THEN "row_index_invalid"
    ELSE "pass"

\* The copy loops raise: tbl.xpath('./w:tblPr')[0] when the table has no w:tblPr
\* (IndexError), and child.copy() for the first child of w:tblPr or of w:tblGrid,
\* since an lxml element has no copy() method (AttributeError).  Nothing has been
\* changed by then.
SplitCopyRaises(table) == table.bare \/ table.props # <<>> \/ table.gridCols > 0

\* "Move rows to new table" and tbl.addnext(new_tbl): the rows from split_position
\* on leave the table and form a new w:tbl, without w:tblPr and w:tblGrid, placed
\* right after it in the body
SplitRows(body, table_index, row_index) ==
    LET at == TablePositions(body)[table_index + 1]
        table == body[at]
        split_position == row_index + 1
        new_tbl == [kind |-> "tbl", props |-> <<>>, gridCols |-> 0, bare |-> TRUE,
                    rows |-> SubSeq(table.rows, split_position + 1, Len(table.rows))]
        kept == [table EXCEPT !.rows = SubSeq(table.rows, 1, split_position)]
    IN InsertAt([body EXCEPT ![at] = kept], at + 1, new_tbl)

split_table(body, table_index, row_index) ==
    LET check == SplitCheck(body, table_index, row_index)
    IN IF check # "pass" THEN [res |-> check, doc |-> body]
       ELSE IF SplitCopyRaises(Tables(body)[table_index + 1])
       THEN [res |-> "failed", doc |-> body]
       ELSE [res |-> "ok", doc |-> SplitRows(body, table_index, row_index)]

---------------------------------------------------------------------------
(* search_and_replace *)

ParagraphMatch(index, original, keyword, replace_with) ==
    [type |-> "paragraph", index |-> index, table_index |-> -1, row |-> -1, column |-> -1,
     original |-> original, replaced |-> StrReplace(original, keyword, replace_with),
     count |-> StrCount(original, keyword)]

CellMatch(table_index, row, column, original, keyword, replace_with) ==
    [type |-> "table cell", index |-> -1, table_index |-> table_index, row |-> row,
     column |-> column,
     original |-> original, replaced |-> StrReplace(original, keyword, replace_with),
     count |-> StrCount(original, keyword)]

\* "Search in paragraphs": paragraph i (0-based) and those after it; acc is
\* [doc, results] so far
RECURSIVE SearchParagraphs(_, _, _, _, _)
SearchParagraphs(acc, i, keyword, replace_with, preview_only) ==
    IF i >= Len(Paragraphs(acc.doc)) THEN acc
    ELSE LET text == ParagraphTexts(acc.doc)[i + 1]
         IN IF Contains(keyword, text)
            THEN SearchParagraphs(
                    [doc |-> IF preview_only THEN acc.doc
                             ELSE SetParagraphText(acc.doc, i,
                                      StrReplace(text, keyword, replace_with)),
                     results |-> Append(acc.results,
                                    ParagraphMatch(i, text, keyword, replace_with))],
                    i + 1, keyword, replace_with, preview_only)
            ELSE SearchParagraphs(acc, i + 1, keyword, replace_with, preview_only)

\* "for para in cell.paragraphs: if keyword in para.text: para.text = ..."
ReplaceInCell(tc, keyword, replace_with) ==
    [tc EXCEPT !.paras =
        [i \in 1..Len(tc.paras) |->
            IF Contains(keyword, ParaText(tc.paras[i]))
            THEN SetParaText(tc.paras[i], StrReplace(ParaText(tc.paras[i]), keyword, replace_with))
            ELSE tc.paras[i]]]

\* "Search in tables": the position (t_idx, r_idx, c_idx) (0-based) and those after
\* it, in the order of the three loops.  row.cells yields a merged cell once per
\* grid column it covers, and each visit reads the cell's text as it is by then
RECURSIVE SearchCells(_, _, _, _, _, _, _)
SearchCells(acc, t_idx, r_idx, c_idx, keyword, replace_with, preview_only) ==
    IF t_idx >= Len(Tables(acc.doc)) THEN acc
    ELSE LET table == Tables(acc.doc)[t_idx + 1]
         IN IF r_idx >= Len(table.rows)
            THEN SearchCells(acc, t_idx + 1, 0, 0, keyword, replace_with, preview_only)
            ELSE IF c_idx >= Len(RowCells(table, r_idx + 1))
            THEN SearchCells(acc, t_idx, r_idx + 1, 0, keyword, replace_with, preview_only)
            ELSE LET owner == RowCells(table, r_idx + 1)[c_idx + 1]
                     tc == table.rows[owner[1]][owner[2]]
                     text == CellText(tc)
                 IN IF Contains(keyword, text)
                    THEN SearchCells(
                            [doc |-> IF preview_only THEN acc.doc
                                     ELSE SetTable(acc.doc, t_idx,
                                            [table EXCEPT !.rows[owner[1]][owner[2]] =
                                                ReplaceInCell(tc, keyword, replace_with)]),
                             results |-> Append(acc.results,
                                            CellMatch(t_idx, r_idx, c_idx, text,
                                                      keyword, replace_with))],
                            t_idx, r_idx, c_idx + 1, keyword, replace_with, preview_only)
                    ELSE SearchCells(acc, t_idx, r_idx, c_idx + 1,
                                     keyword, replace_with, preview_only)

\* a slip in search_and_replace: the replacement is made whatever preview_only says
search_and_replace_PreviewIgnored(body, keyword, replace_with, preview_only) ==
    LET inParagraphs == SearchParagraphs([doc |-> body, results |-> <<>>], 0,
                                         keyword, replace_with, FALSE)
        found == SearchCells(inParagraphs, 0, 0, 0, keyword, replace_with, FALSE)
    IN [res |-> IF found.results = <<>> THEN "keyword_not_found" ELSE "ok",
        doc |-> found.doc, results |-> found.results]

search_and_replace(body, keyword, replace_with, preview_only) ==
    LET inParagraphs == SearchParagraphs([doc |-> body, results |-> <<>>], 0,
                                         keyword, replace_with, preview_only)
        found == SearchCells(inParagraphs, 0, 0, 0, keyword, replace_with, preview_only)
    IN [res |-> IF found.results = <<>> THEN "keyword_not_found" ELSE "ok",
        doc |-> found.doc, results |-> found.results]

\* what the returned report says of where the matches are: per location its type
\* and indices, in order (len(results) is the reported number of locations)
Locations(results) ==
    [i \in 1..Len(results) |->
        <<results[i].type, results[i].index,
          results[i].table_index, results[i].row, results[i].column>>]

---------------------------------------------------------------------------
(* search_text *)

\* "Search in paragraphs": the matches of paragraph i (0-based) and those after it
RECURSIVE TextParagraphMatches(_, _, _)
TextParagraphMatches(body, keyword, i) ==
    IF i >= Len(Paragraphs(body)) THEN <<>>
    ELSE LET text == ParagraphTexts(body)[i + 1]
         IN (IF Contains(keyword, text)
             THEN <<[type |-> "paragraph", index |-> i, table_index |-> -1, row |-> -1,
                     column |-> -1, text |-> text]>>
             ELSE <<>>)
            \o TextParagraphMatches(body, keyword, i + 1)

\* "Search in tables": the matches at (t_idx, r_idx, c_idx) (0-based) and after it,
\* in the order of the three loops; row.cells yields a merged cell once per grid
\* column it covers
RECURSIVE TextCellMatches(_, _, _, _, _)
TextCellMatches(body, keyword, t_idx, r_idx, c_idx) ==
    IF t_idx >= Len(Tables(body)) THEN <<>>
    ELSE LET table == Tables(body)[t_idx + 1]
         IN IF r_idx >= Len(table.rows)
            THEN TextCellMatches(body, keyword, t_idx + 1, 0, 0)
            ELSE IF c_idx >= Len(RowCells(table, r_idx + 1))
            THEN TextCellMatches(body, keyword, t_idx, r_idx + 1, 0)
            ELSE LET owner == RowCells(table, r_idx + 1)[c_idx + 1]
                     text == CellText(table.rows[owner[1]][owner[2]])
                 IN (IF Contains(keyword, text)
                     THEN <<[type |-> "table cell", index |-> -1, table_index |-> t_idx,
                             row |-> r_idx, column |-> c_idx, text |-> text]>>
                     ELSE <<>>)
                    \o TextCellMatches(body, keyword, t_idx, r_idx, c_idx + 1)

\* a slip in search_text: the tables are searched before the paragraphs
search_text_TablesFirst(body, keyword) ==
    LET results == TextCellMatches(body, keyword, 0, 0, 0)
                     \o TextParagraphMatches(body, keyword, 0)
    IN [res |-> IF results = <<>> THEN "keyword_not_found" ELSE "ok",
        doc |-> body, results |-> results]

search_text(body, keyword) ==
    LET results == TextParagraphMatches(body, keyword, 0)
                     \o TextCellMatches(body, keyword, 0, 0, 0)
    IN [res |-> IF results = <<>> THEN "keyword_not_found" ELSE "ok",
        doc |-> body, results |-> results]

---------------------------------------------------------------------------
(* add_table / edit_table_cell *)

\* the w:tblPr children of a table made by doc.add_table(style="Table Grid")
GridProps == <<"tblStyle", "tblW", "tblLook">>

\* the w:tbl that doc.add_table(rows, cols) appends: cols grid columns and rows
\* rows of cols cells, each holding one empty paragraph
NewTable(rows, cols) ==
    Table(GridProps, cols, [r \in 1..rows |-> [c \in 1..cols |-> Tc(<<EmptyP>>, 1, "None")]])

\* a slip in "Fill table data": data[j][i] is written to cell (i, j)
FillDataTransposed(table, rows, cols, data) ==
    [table EXCEPT !.rows =
        [r \in 1..rows |-> [c \in 1..cols |->
            IF c <= Len(data) /\ r <= Len(data[c])
            THEN TextCell(data[c][r]) ELSE table.rows[r][c]]]]

\* "Fill table data": row.cells[j].text = str(cell_text) for i < rows, j < cols;
\* data is a list of lists of str, None as the empty list
FillData(table, rows, cols, data) ==
    [table EXCEPT !.rows =
        [r \in 1..rows |-> [c \in 1..cols |->
            IF r <= Len(data) /\ c <= Len(data[r])
            THEN TextCell(data[r][c]) ELSE table.rows[r][c]]]]

\* add_table for rows >= 0, cols >= 0.  The table is appended to the body first;
\* table.style = "Table Grid" then raises when the styles of the document define
\* no such style (has_style), which leaves the new table unstyled and unfilled
add_table(body, rows, cols, data, has_style) ==
    IF ~has_style
    THEN [res |-> "failed",
          doc |-> Append(body, [NewTable(rows, cols) EXCEPT !.props = <<"tblW", "tblLook">>])]
    ELSE [res |-> "ok", doc |-> Append(body, FillData(NewTable(rows, cols), rows, cols, data))]

\* _Cell.text = text (setter): the content of the cell becomes one paragraph with
\* one run; its w:tcPr (gridSpan, vMerge) stays
SetCellText(tc, text) == [tc EXCEPT !.paras = TextCell(text).paras]

\* the checks of edit_table_cell, then table.cell(row_index, col_index).text = text
edit_table_cell(body, table_index, row_index, col_index, text) ==
    IF Tables(body) = <<>>
    THEN [res |-> "no_tables", doc |-> body]
    ELSE IF table_index < 0 \/ table_index >= Len(Tables(body))
    THEN [res |-> "table_index_out_of_range", doc |-> body]
    ELSE LET table == Tables(body)[table_index + 1]
         IN IF row_index < 0 \/ row_index >= Len(table.rows)
            THEN [res |-> "row_index_out_of_range", doc |-> body]
            ELSE IF table.bare
            THEN [res |-> "failed", doc |-> body]
            ELSE IF col_index < 0 \/ col_index >= table.gridCols
            THEN [res |-> "column_index_out_of_range", doc |-> body]
            ELSE LET owner == RowCells(table, row_index + 1)[col_index + 1]
                 IN [res |-> "ok",
                     doc |-> SetTable(body, table_index,
                                [table EXCEPT !.rows[owner[1]][owner[2]] =
                                    SetCellText(table.rows[owner[1]][owner[2]], text)])]

---------------------------------------------------------------------------
(* add_paragraph / add_heading / add_page_break *)

\* how `if color and color.startswith('#') and len(color) == 7` and the three
\* int(.., 16) treat the colours of the model: "set", "skip", or "raise" (ValueError)
ColorOutcome(color) ==
    IF color = "#FF0000" THEN "set"
    ELSE IF color = "#GG0000" THEN "raise"
    ELSE "skip"

\* str(bool) as the captured run attributes hold it
BoolName(b) == IF b THEN "True" ELSE "False"

\* add_paragraph: doc.add_paragraph(text) appends a paragraph, with one run when
\* text is not empty; the run is formatted, then the alignment is set.  A colour
\* that is no hexadecimal number raises once the paragraph is there and its
\* bold, italic, underline, size and name are set
add_paragraph(body, text, bold, italic, underline, font_size, font_name, color, alignment) ==
    LET fmt == [bold |-> BoolName(bold), italic |-> BoolName(italic),
                underline |-> BoolName(underline),
                font_size |-> IF Truthy(font_size) THEN font_size ELSE "None",
                font_name |-> IF Truthy(font_name) THEN font_name ELSE "None",
                color |-> IF ColorOutcome(color) = "set" THEN color ELSE "None"]
        runs == IF text = <<>> THEN <<>> ELSE <<Run(text, fmt)>>
        raised == text # <<>> /\ ColorOutcome(color) = "raise"
    IN IF raised
       THEN [res |-> "failed", doc |-> Append(body, Para("Normal", "None", runs))]
       ELSE [res |-> "ok",
             doc |-> Append(body, Para("Normal",
                                       IF alignment \in {"left", "center", "right", "justify"}
                                       THEN alignment ELSE "None",
                                       runs))]

\* "Heading %d" % level
HeadingStyle(level) == IF level = 1 THEN "Heading 1" ELSE "Heading 2"

\* add_heading for the levels 1, 2 and 10: doc.add_heading raises for a level
\* outside 0..9 before anything is added; else the paragraph is appended with its
\* run, and giving it the style raises when the document defines no such style
add_heading(body, text, level, has_style) ==
    IF level < 0 \/ level > 9
    THEN [res |-> "failed", doc |-> body]
    ELSE LET runs == IF text = <<>> THEN <<>> ELSE <<Run(text, DefaultFmt)>>
         IN IF ~has_style
            THEN [res |-> "failed", doc |-> Append(body, Para("Normal", "None", runs))]
            ELSE [res |-> "ok", doc |-> Append(body, Para(HeadingStyle(level), "None", runs))]

\* the w:br of type page in a run, written as one character of its text
PageBreak == "\f"

\* add_page_break: doc.add_page_break() appends a paragraph whose run holds the break
add_page_break(body) ==
    [res |-> "ok", doc |-> Append(body, Para("Normal", "None", <<Run(<<PageBreak>>, DefaultFmt)>>))]

---------------------------------------------------------------------------
(* find_and_replace *)

\* one paragraph under `if find_text in paragraph.text`: its text afterwards and
\* what is added to replace_count
FindReplaceInParagraph(p, find_text, replace_text) ==
    IF Contains(find_text, ParaText(p))
    THEN LET text == StrReplace(ParaText(p), find_text, replace_text)
         IN [para |-> SetParaText(p, text), count |-> StrCount(text, replace_text)]
    ELSE [para |-> p, count |-> 0]

RECURSIVE SumTo(_, _)
SumTo(counts, n) == IF n = 0 THEN 0 ELSE counts[n] + SumTo(counts, n - 1)

\* a sequence of paragraphs (doc.paragraphs, cell.paragraphs) gone through in order
FindReplaceInParagraphs(paras, find_text, replace_text) ==
    LET each == [i \in 1..Len(paras) |-> FindReplaceInParagraph(paras[i], find_text, replace_text)]
    IN [paras |-> [i \in 1..Len(paras) |-> each[i].para],
        count |-> SumTo([i \in 1..Len(paras) |-> each[i].count], Len(paras))]

\* "Find and replace in paragraphs": the blocks of the body that are paragraphs
FindReplaceInBody(body, find_text, replace_text) ==
    LET each == [i \in 1..Len(body) |->
                    IF IsParagraph(body[i])
                    THEN FindReplaceInParagraph(body[i], find_text, replace_text)
                    ELSE [para |-> body[i], count |-> 0]]
    IN [doc |-> [i \in 1..Len(body) |-> each[i].para],
        count |-> SumTo([i \in 1..Len(body) |-> each[i].count], Len(body))]

\* "Find and replace in tables": the position (t_idx, r_idx, c_idx) (0-based) and
\* those after it; acc is [doc, count] so far.  row.cells yields a merged cell once
\* per grid column it covers, and each visit reads its paragraphs as they are by then
RECURSIVE FindReplaceInCells(_, _, _, _, _, _)
FindReplaceInCells(acc, t_idx, r_idx, c_idx, find_text, replace_text) ==
    IF t_idx >= Len(Tables(acc.doc)) THEN acc
    ELSE LET table == Tables(acc.doc)[t_idx + 1]
         IN IF r_idx >= Len(table.rows)
            THEN FindReplaceInCells(acc, t_idx + 1, 0, 0, find_text, replace_text)
            ELSE IF c_idx >= Len(RowCells(table, r_idx + 1))
            THEN FindReplaceInCells(acc, t_idx, r_idx + 1, 0, find_text, replace_text)
            ELSE LET owner == RowCells(table, r_idx + 1)[c_idx + 1]
                     tc == table.rows[owner[1]][owner[2]]
                     done == FindReplaceInParagraphs(tc.paras, find_text, replace_text)
                 IN FindReplaceInCells(
                        [doc |-> SetTable(acc.doc, t_idx,
                                    [table EXCEPT !.rows[owner[1]][owner[2]].paras = done.paras]),
                         count |-> acc.count + done.count],
                        t_idx, r_idx, c_idx + 1, find_text, replace_text)

\* a slip in find_and_replace: the loop over the tables is missing
find_and_replace_ParagraphsOnly(body, find_text, replace_text) ==
    LET inBody == FindReplaceInBody(body, find_text, replace_text)
    IN [res |-> "ok", doc |-> inBody.doc, results |-> <<inBody.count>>]

\* replace_count is the count the returned message states
find_and_replace(body, find_text, replace_text) ==
    LET inBody == FindReplaceInBody(body, find_text, replace_text)
        done == FindReplaceInCells(inBody, 0, 0, 0, find_text, replace_text)
    IN [res |-> "ok", doc |-> done.doc, results |-> <<done.count>>]

---------------------------------------------------------------------------
(* add_table_row *)

\* table.add_row() and "Fill row data": a w:tr is appended; it gets one cell per
\* w:gridCol, each with one empty paragraph, and cell i takes data[i] for
\* i < len(new_row.cells).  Reading w:tblGrid raises on a table that has none,
\* when the w:tr is already there
add_table_row(body, table_index, data) ==
    IF Tables(body) = <<>>
    THEN [res |-> "no_tables", doc |-> body]
    ELSE IF table_index < 0 \/ table_index >= Len(Tables(body))
    THEN [res |-> "table_index_out_of_range", doc |-> body]
    ELSE LET table == Tables(body)[table_index + 1]
             new_row == [c \in 1..table.gridCols |->
                            IF c <= Len(data) THEN TextCell(data[c])
                            ELSE Tc(<<EmptyP>>, 1, "None")]
         IN IF table.bare
            THEN [res |-> "failed",
                  doc |-> SetTable(body, table_index,
                              [table EXCEPT !.rows = Append(table.rows, <<>>)])]
            ELSE [res |-> "ok",
                  doc |-> SetTable(body, table_index,
                              [table EXCEPT !.rows = Append(table.rows, new_row)])]

---------------------------------------------------------------------------
(* set_page_margins *)

\* Cm(x) in EMU, for a whole number of centimetres
Cm(x) == x * 360000

\* a margin argument is <<>> for None, else <<x>> for x centimetres
SetMargin(old, arg) == IF arg = <<>> THEN old ELSE Cm(arg[1])

\* set_page_margins: the margins of doc.sections[0] that are not None are set
set_page_margins(margins, top, bottom, left, right) ==
    [top |-> SetMargin(margins.top, top), bottom |-> SetMargin(margins.bottom, bottom),
     left |-> SetMargin(margins.left, left), right |-> SetMargin(margins.right, right)]

---------------------------------------------------------------------------
(* Document files and command arguments of the model *)

A == <<"a">>
B == <<"b">>
C == <<"c">>
AB == <<"a", "b">>
X == <<"x">>
Y == <<"y">>

BoldFmt == [DefaultFmt EXCEPT !.bold = "True", !.font_size = "12"]

PlainParagraph(style, text) == Para(style, "None", <<Run(text, DefaultFmt)>>)

TitleA == PlainParagraph("Heading 1", A)
TitleC == PlainParagraph("Heading 1", C)
SubTitleAB == Para("Heading 2", "center", <<Run(A, BoldFmt), Run(B, DefaultFmt)>>)
TextB == PlainParagraph("Normal", B)
TextA == PlainParagraph("Normal", A)

\* a table as add_table and edit_table_cell leave it: rows of text cells
TextTable(texts) ==
    Table(GridProps, Len(texts[1]),
          [r \in 1..Len(texts) |-> [c \in 1..Len(texts[r]) |-> TextCell(texts[r][c])]])

Table1x2 == TextTable(<< <<A, A>> >>)
Table2x2 == TextTable(<< <<A, B>>, <<AB, A>> >>)

\* Table1x2 after merge_table_cells(0, 0, 0, 0, 1): one cell reached at two columns
MergedTable1x2 == MergeCells(Table1x2, 0, 0, 0, 1)

\* the bodies of at most n blocks over a set of blocks

\* a file on disk: whether it exists, whether Document(path) loads it, its body
File(body) == [exists |-> TRUE, loads |-> TRUE, body |-> body]
MissingFile == [exists |-> FALSE, loads |-> FALSE, body |-> <<>>]
CorruptFile == [exists |-> TRUE, loads |-> FALSE, body |-> <<>>]

FilesOf(blocks, n) ==
    {File(b) : b \in UNION {[1..k -> blocks] : k \in 0..n}}
        \cup {MissingFile, CorruptFile}

FilePath == "doc.docx"

\* the paths a document is saved to: file_path, new_file_path of save_as_document,
\* and the path create_document_copy derives from either with its default suffix
CopyPath(path) == IF path = FilePath THEN "doc-copy.docx" ELSE "new-copy.docx"

\* nothing saved yet
NothingWritten ==
    [path \in {FilePath, "new.docx", CopyPath(FilePath), CopyPath("new.docx")}
        |-> NoDocument]

\* CURRENT_DOC_FILE does not exist
NoStateFile == [exists |-> FALSE, readable |-> FALSE, empty |-> FALSE, file |-> MissingFile]

---------------------------------------------------------------------------
(* The session: processor and the commands *)

\* the server runs, started without a state file
Init ==
    /\ current_document = NoDocument
    /\ current_file_path = "None"
    /\ state_file = NoStateFile
    /\ phase = "serving"
    /\ written = NothingWritten
    /\ pre_document = NoDocument
    /\ last = [op |-> "none", args |-> <<>>, res |-> "none", report |-> <<>>]
    /\ steps = 0

\* A command that edits the open document: `if not processor.current_document:
\* return "No document is open"`, else the outcome of the command on the body
Command(op, args, outcome) ==
    /\ phase = "serving"
    /\ steps < MaxSteps
    /\ steps' = steps + 1
    /\ pre_document' = current_document
    /\ UNCHANGED <<current_file_path, state_file, phase, written>>
    /\ IF ~current_document.open
       THEN /\ current_document' = current_document
            /\ last' = [op |-> op, args |-> args, res |-> "no_document", report |-> <<>>]
       ELSE /\ current_document' = [current_document EXCEPT !.body = outcome.doc]
            /\ last' = [op |-> op, args |-> args, res |-> outcome.res,
                        report |-> IF "results" \in DOMAIN outcome THEN outcome.results
                                   ELSE <<>>]

\* create_document(file_path): the session is set before the document is saved,
\* and a failing save returns the failure message
CreateDocumentCmd ==
    \E saved \in BOOLEAN :
        /\ phase = "serving"
        /\ steps < MaxSteps
        /\ steps' = steps + 1
        /\ pre_document' = current_document
        /\ current_document' = Document(<<>>)
        /\ current_file_path' = FilePath
        /\ written' = IF saved THEN [written EXCEPT ![FilePath] = Document(<<>>)] ELSE written
        /\ UNCHANGED <<state_file, phase>>
        /\ last' = [op |-> "create_document", args |-> [file_path |-> FilePath],
                    res |-> IF saved THEN "ok" ELSE "failed", report |-> <<>>]

\* open_document(file_path) for a file of the given set
OpenDocumentCmd(files) ==
    \E file \in files :
        /\ phase = "serving"
        /\ steps < MaxSteps
        /\ steps' = steps + 1
        /\ UNCHANGED <<state_file, phase, written>>
        /\ pre_document' = IF file.exists /\ file.loads THEN NoDocument ELSE current_document
        /\ IF ~file.exists
           THEN /\ UNCHANGED <<current_document, current_file_path>>
                /\ last' = [op |-> "open_document", args |-> [file_path |-> FilePath],
                            res |-> "file_does_not_exist", report |-> <<>>]
           ELSE IF ~file.loads
           THEN /\ UNCHANGED <<current_document, current_file_path>>
                /\ last' = [op |-> "open_document", args |-> [file_path |-> FilePath],
                            res |-> "failed", report |-> <<>>]
           ELSE /\ current_document' = Document(file.body)
                /\ current_file_path' = FilePath
                /\ last' = [op |-> "open_document", args |-> [file_path |-> FilePath],
                            res |-> "ok", report |-> <<>>]

ReplaceSectionCmd ==
    \E section_title \in {A, C}, new_content \in {<<>>, <<X>>, <<X, Y>>, <<<<Nul>>, Y>>},
       preserve_title \in BOOLEAN :
        Command("replace_section",
                [section_title |-> section_title, new_content |-> new_content,
                 preserve_title |-> preserve_title],
                replace_section(current_document.body, section_title, new_content,
                                preserve_title))

EditSectionByKeywordCmd ==
    \E keyword \in {A, C}, new_content \in {<<>>, <<X>>, <<X, Y>>, <<<<Nul>>, Y>>},
       section_range \in {0, 1} :
        Command("edit_section_by_keyword",
                [keyword |-> keyword, new_content |-> new_content,
                 section_range |-> section_range],
                edit_section_by_keyword(current_document.body, keyword, new_content,
                                        section_range))

DeleteParagraphCmd ==
    \E paragraph_index \in (-1..MaxBlocks) :
        Command("delete_paragraph", [paragraph_index |-> paragraph_index],
                delete_paragraph(current_document.body, paragraph_index))

DeleteTextCmd ==
    \E paragraph_index \in (-1..MaxBlocks), start_pos \in (-1..2), end_pos \in (-1..2) :
        Command("delete_text",
                [paragraph_index |-> paragraph_index, start_pos |-> start_pos,
                 end_pos |-> end_pos],
                delete_text(current_document.body, paragraph_index, start_pos, end_pos))

\* row.cells is followed on tables whose rows span the grid
SearchAndReplaceCmd ==
    \E keyword \in {A, AB}, replace_with \in {<<>>, B, AB}, preview_only \in BOOLEAN :
        /\ \A i \in 1..Len(Tables(current_document.body)) :
                WellFormed(Tables(current_document.body)[i])
        /\ Command("search_and_replace",
                   [keyword |-> keyword, replace_with |-> replace_with,
                    preview_only |-> preview_only],
                   search_and_replace(current_document.body, keyword, replace_with,
                                      preview_only))

\* a slip in SessionCommand: the check for an open document is missing
SessionCommand_Unguarded(op, args, res, doc, path, files) ==
    /\ phase = "serving"
    /\ steps < MaxSteps
    /\ steps' = steps + 1
    /\ pre_document' = current_document
    /\ UNCHANGED <<state_file, phase>>
    /\ current_document' = doc
    /\ current_file_path' = path
    /\ written' = files
    /\ last' = [op |-> op, args |-> args, res |-> res, report |-> <<>>]

\* A command guarded by "No document is open" that, on an open document, leaves
\* the document doc, the path path and the saved files files
SessionCommand(op, args, res, doc, path, files) ==
    /\ phase = "serving"
    /\ steps < MaxSteps
    /\ steps' = steps + 1
    /\ pre_document' = current_document
    /\ UNCHANGED <<state_file, phase>>
    /\ IF ~current_document.open
       THEN /\ UNCHANGED <<current_document, current_file_path, written>>
            /\ last' = [op |-> op, args |-> args, res |-> "no_document", report |-> <<>>]
       ELSE /\ current_document' = doc
            /\ current_file_path' = path
            /\ written' = files
            /\ last' = [op |-> op, args |-> args, res |-> res, report |-> <<>>]

\* save_document; saved: whether Document.save succeeds
SaveDocumentCmd ==
    \E saved \in BOOLEAN :
        SessionCommand("save_document", <<>>,
                       IF current_file_path = "None" THEN "not_saved_before"
                       ELSE IF saved THEN "ok" ELSE "failed",
                       current_document, current_file_path,
                       IF current_file_path # "None" /\ saved
                       THEN [written EXCEPT ![current_file_path] = current_document]
                       ELSE written)

\* save_as_document(new_file_path): the path is updated once the save succeeded
SaveAsDocumentCmd ==
    \E new_file_path \in {FilePath, "new.docx"}, saved \in BOOLEAN :
        SessionCommand("save_as_document", [new_file_path |-> new_file_path],
                       IF saved THEN "ok" ELSE "failed",
                       current_document,
                       IF saved THEN new_file_path ELSE current_file_path,
                       IF saved THEN [written EXCEPT ![new_file_path] = current_document]
                       ELSE written)

\* create_document_copy() with its default suffix
CreateDocumentCopyCmd ==
    \E saved \in BOOLEAN :
        SessionCommand("create_document_copy", <<>>,
                       IF current_file_path = "None" THEN "not_saved_before"
                       ELSE IF saved THEN "ok" ELSE "failed",
                       current_document, current_file_path,
                       IF current_file_path # "None" /\ saved
                       THEN [written EXCEPT ![CopyPath(current_file_path)] = current_document]
                       ELSE written)

\* get_document_info reads the counts and the style names
GetDocumentInfoCmd ==
    SessionCommand("get_document_info", <<>>, "ok",
                   current_document, current_file_path, written)

SetPageMarginsCmd ==
    \E top \in {<<>>, <<2>>}, left \in {<<>>, <<2>>} :
        SessionCommand("set_page_margins",
                       [top |-> top, bottom |-> <<>>, left |-> left, right |-> <<>>], "ok",
                       [current_document EXCEPT
                            !.margins = set_page_margins(current_document.margins,
                                                         top, <<>>, left, <<>>)],
                       current_file_path, written)

AddPageBreakCmd ==
    Command("add_page_break", <<>>, add_page_break(current_document.body))

AddParagraphCmd ==
    \E text \in {<<>>, X}, bold \in BOOLEAN, color \in {"None", "#FF0000", "#GG0000"},
       alignment \in {"None", "center"} :
        Command("add_paragraph",
                [text |-> text, bold |-> bold, color |-> color, alignment |-> alignment],
                add_paragraph(current_document.body, text, bold, FALSE, FALSE,
                              "None", "None", color, alignment))

\* has_style: whether the styles of the open document define the heading style
AddHeadingCmd ==
    \E text \in {<<>>, X}, level \in {1, 2, 10}, has_style \in BOOLEAN :
        Command("add_heading", [text |-> text, level |-> level],
                add_heading(current_document.body, text, level, has_style))

\* row.cells is followed on tables whose rows span the grid
FindAndReplaceCmd ==
    \E find_text \in {A, AB}, replace_text \in {<<>>, B, AB} :
        /\ \A i \in 1..Len(Tables(current_document.body)) :
                WellFormed(Tables(current_document.body)[i])
        /\ Command("find_and_replace",
                   [find_text |-> find_text, replace_text |-> replace_text],
                   find_and_replace(current_document.body, find_text, replace_text))

AddTableRowCmd ==
    \E table_index \in {-1, 0, 1}, data \in {<<>>, <<X>>, <<X, Y, X>>} :
        Command("add_table_row", [table_index |-> table_index, data |-> data],
                add_table_row(current_document.body, table_index, data))

\* row.cells is followed on tables whose rows span the grid
SearchTextCmd ==
    \E keyword \in {<<>>, A, AB, <<"H", "e", "l", "l", "o">>} :
        /\ \A i \in 1..Len(Tables(current_document.body)) :
                WellFormed(Tables(current_document.body)[i])
        /\ Command("search_text", [keyword |-> keyword],
                   search_text(current_document.body, keyword))

DeleteTableRowCmd ==
    \E table_index \in (-1..(MaxBlocks - 1)), row_index \in (-1..3) :
        Command("delete_table_row", [table_index |-> table_index, row_index |-> row_index],
                delete_table_row(current_document.body, table_index, row_index))

\* start_cell.merge(end_cell) is followed on tables without earlier merges
MergeTableCellsCmd(tables, rows, cols) ==
    \E table_index \in tables, start_row \in rows, start_col \in cols,
       end_row \in rows, end_col \in cols :
        /\ MergeCheck(current_document.body, table_index,
                      start_row, start_col, end_row, end_col) = "pass"
             => LET table == Tables(current_document.body)[table_index + 1]
                IN Unmerged(table) /\ WellFormed(table)
        /\ Command("merge_table_cells",
                   [table_index |-> table_index, start_row |-> start_row,
                    start_col |-> start_col, end_row |-> end_row, end_col |-> end_col],
                   merge_table_cells(current_document.body, table_index,
                                     start_row, start_col, end_row, end_col))

SplitTableCmd ==
    \E table_index \in (-1..(MaxBlocks - 1)), row_index \in (-1..3) :
        Command("split_table", [table_index |-> table_index, row_index |-> row_index],
                split_table(current_document.body, table_index, row_index))

\* has_style: whether the styles of the open document define "Table Grid"
AddTableCmd ==
    \E rows \in {0, 2}, cols \in {0, 2}, has_style \in BOOLEAN,
       data \in {<<>>, << <<A, B>>, <<AB, A>> >>, << <<C>> >>,
                 << <<A, B, C>>, <<B>>, <<C>> >>} :
        Command("add_table", [rows |-> rows, cols |-> cols, data |-> data],
                add_table(current_document.body, rows, cols, data, has_style))

\* table.cell() is followed on tables whose rows span the grid
EditTableCellCmd ==
    \E table_index \in (-1..(MaxBlocks - 1)), row_index \in (-1..2),
       col_index \in (-1..2), text \in {<<>>, X} :
        /\ \A i \in 1..Len(Tables(current_document.body)) :
                LET table == Tables(current_document.body)[i]
                IN table.bare \/ WellFormed(table)
        /\ Command("edit_table_cell",
                   [table_index |-> table_index, row_index |-> row_index,
                    col_index |-> col_index, text |-> text],
                   edit_table_cell(current_document.body, table_index, row_index,
                                   col_index, text))

---------------------------------------------------------------------------
(* The life of the process: import, main(), the server's lifespan *)

\* what CURRENT_DOC_FILE can hold when the process starts: the path of a file (one
\* that loads, a corrupt one, a missing one: any text that names no file), nothing,
\* or bytes that do not decode
StateFile(file) == [exists |-> TRUE, readable |-> TRUE, empty |-> FALSE, file |-> file]

StateFilesOf(files) ==
    {StateFile(file) : file \in files}
        \cup {NoStateFile,
              \* CURRENT_DOC_FILE holds nothing; reading CURRENT_DOC_FILE raises
              [exists |-> TRUE, readable |-> TRUE, empty |-> TRUE, file |-> MissingFile],
              [exists |-> TRUE, readable |-> FALSE, empty |-> FALSE, file |-> MissingFile]}

\* the process starts: nothing is imported yet
InitStart(state_files) ==
    /\ current_document = NoDocument
    /\ current_file_path = "None"
    /\ state_file \in state_files
    /\ phase = "start"
    /\ written = NothingWritten
    /\ pre_document = NoDocument
    /\ last = [op |-> "none", args |-> <<>>, res |-> "none", report |-> <<>>]
    /\ steps = 0

\* `processor = DocxProcessor()` at the import of mcp_doc.processor: __init__ calls
\* _load_current_document.  A recorded document that loads becomes the current
\* document and the state file stays; current_file_path is assigned before
\* Document(file_path) is tried; in every other case the state file is removed
ConstructProcessor ==
    /\ phase = "start"
    /\ phase' = "constructed"
    /\ IF ~state_file.exists
       THEN UNCHANGED <<current_document, current_file_path, state_file>>
       ELSE IF ~state_file.readable
       THEN /\ state_file' = NoStateFile
            /\ UNCHANGED <<current_document, current_file_path>>
       ELSE IF ~state_file.empty /\ state_file.file.exists
       THEN IF state_file.file.loads
            THEN /\ current_file_path' = FilePath
                 /\ current_document' = Document(state_file.file.body)
                 /\ UNCHANGED state_file
            ELSE /\ current_file_path' = FilePath
                 /\ state_file' = NoStateFile
                 /\ UNCHANGED current_document
       ELSE /\ state_file' = NoStateFile
            /\ UNCHANGED <<current_document, current_file_path>>
    /\ UNCHANGED <<written, pre_document, last, steps>>

\* main(): the state file is removed if it exists, then mcp.run() serves commands
Main ==
    /\ phase = "constructed"
    /\ phase' = "serving"
    /\ state_file' = NoStateFile
    /\ UNCHANGED <<current_document, current_file_path, written, pre_document, last, steps>>

\* server_lifespan, finally: with a document open and a path, processor.save_state()
\* saves the document and then writes its path to the state file; a failing save
\* is logged and the state file is not written
Shutdown ==
    /\ phase = "serving"
    /\ phase' = "stopped"
    /\ IF current_document.open /\ current_file_path # "None"
       THEN \E saved \in BOOLEAN :
                IF saved
                THEN /\ written' = [written EXCEPT ![current_file_path] = current_document]
                     /\ state_file' = StateFile(File(current_document.body))
                ELSE UNCHANGED <<written, state_file>>
       ELSE UNCHANGED <<written, state_file>>
    /\ UNCHANGED <<current_document, current_file_path, pre_document, last, steps>>

---------------------------------------------------------------------------
(* Specifications: a session over the files and commands of one group *)

NextSection ==
    \/ CreateDocumentCmd
    \* every short document, the scenario's two titled sections, and documents
    \* with headings of several levels: a level 1 section with a level 2 heading
    \* in it, a level 2 section followed by a 'Heading 10' paragraph, and a
    \* paragraph of style Normal followed by a heading
    \/ OpenDocumentCmd(
         FilesOf({TitleA, TextB, TitleC, Table1x2}, MaxBlocks)
           \cup {File(<<TitleA, TextB, TitleC, TextB>>),
                 File(<<TitleA, SubTitleAB, TextB, TitleC>>),
                 File(<<SubTitleAB, TextB, PlainParagraph("Heading 10", C), TextB>>),
                 File(<<TextA, TextB, SubTitleAB>>)})
    \/ ReplaceSectionCmd
    \/ EditSectionByKeywordCmd

SpecSection == Init /\ [][NextSection]_vars

NextParagraph ==
    \/ CreateDocumentCmd
    \/ OpenDocumentCmd(
         FilesOf({TextA, PlainParagraph("Normal", AB), EmptyP, Table1x2}, MaxBlocks))
    \/ DeleteParagraphCmd
    \/ DeleteTextCmd

SpecParagraph == Init /\ [][NextParagraph]_vars

NextSearch ==
    \/ CreateDocumentCmd
    \* every short document, and the single-paragraph document 'Hello World'
    \/ OpenDocumentCmd(
         FilesOf({TextA, PlainParagraph("Normal", AB), MergedTable1x2, Table2x2},
                 MaxBlocks - 1)
           \cup {File(<<PlainParagraph("Normal",
                   <<"H", "e", "l", "l", "o", " ", "W", "o", "r", "l", "d">>)>>)})
    \/ MergeTableCellsCmd({0, 1}, {0, 1}, {0, 1})
    \/ SearchAndReplaceCmd
    \/ SearchTextCmd
    \/ FindAndReplaceCmd

SpecSearch == Init /\ [][NextSearch]_vars

NextSplit ==
    \/ CreateDocumentCmd
    \* the last table is one of a file whose w:tblPr and w:tblGrid are empty
    \/ OpenDocumentCmd(
         FilesOf({TextB, Table2x2,
                  TextTable(<< <<A, B>>, <<C, A>>, <<B, C>> >>),
                  Table(<<>>, 0, << <<TextCell(A)>>, <<TextCell(B)>>, <<TextCell(C)>> >>)},
                 MaxBlocks - 1))
    \/ DeleteTableRowCmd
    \/ SplitTableCmd

SpecSplit == Init /\ [][NextSplit]_vars

NextMerge ==
    \/ CreateDocumentCmd
    \/ OpenDocumentCmd(
         FilesOf({Table2x2, TextTable(<< <<A, B>>, <<C, A>>, <<B, C>> >>)},
                 MaxBlocks - 2))
    \/ MergeTableCellsCmd({-1, 0, 1}, {-1, 0, 2}, {-1, 0, 1, 2})

SpecMerge == Init /\ [][NextMerge]_vars

NextCell ==
    \/ CreateDocumentCmd
    \/ OpenDocumentCmd(
         FilesOf({TextA, Table2x2}, MaxBlocks - 1)
           \cup {File(<<MergedTable1x2, TextA>>)})
    \/ AddTableCmd
    \/ EditTableCellCmd

SpecCell == Init /\ [][NextCell]_vars

Unopened == ~current_document.open

NextServer ==
    \/ ConstructProcessor
    \/ Main
    \/ Shutdown
    \/ CreateDocumentCmd
    \/ OpenDocumentCmd({File(<<>>), File(<<TextA, Table2x2>>), MissingFile, CorruptFile})
    \/ SaveDocumentCmd
    \/ SaveAsDocumentCmd
    \/ CreateDocumentCopyCmd
    \/ GetDocumentInfoCmd
    \/ SetPageMarginsCmd
    \/ AddPageBreakCmd
    \/ AddParagraphCmd
    \/ AddHeadingCmd
    \/ FindAndReplaceCmd
    \/ AddTableRowCmd
    \/ Unopened /\ AddTableCmd
    \/ Unopened /\ EditTableCellCmd
    \/ Unopened /\ DeleteTableRowCmd
    \/ Unopened /\ MergeTableCellsCmd({0}, {0, 1}, {0, 1})
    \/ Unopened /\ SplitTableCmd
    \/ Unopened /\ DeleteParagraphCmd
    \/ Unopened /\ DeleteTextCmd
    \/ Unopened /\ SearchTextCmd
    \/ Unopened /\ SearchAndReplaceCmd
    \/ Unopened /\ ReplaceSectionCmd
    \/ Unopened /\ EditSectionByKeywordCmd

SpecServer ==
    /\ InitStart(StateFilesOf({File(<<>>), File(<<TextA, Table2x2>>),
                               MissingFile, CorruptFile}))
    /\ [][NextServer]_vars

---------------------------------------------------------------------------
(* Properties.  Each reads the last command from the history variables: its *)
(* arguments in last.args, its result in last.res, the document it ran on   *)
(* in pre_document and the document it left in current_document.            *)

Ran(op) == last.op = op /\ pre_document.open

Before == pre_document.body
After == current_document.body

OnlyParagraphs(body) == \A i \in 1..Len(body) : body[i].kind = "p"

\* what a block is compared by: a paragraph by its text, a table by its content
BlockContent(b) ==
    IF b.kind = "p" THEN [kind |-> "p", text |-> ParaText(b), rows |-> <<>>]
    ELSE [kind |-> "tbl", text |-> <<>>, rows |-> b.rows]

BlockContents(body) == [i \in 1..Len(body) |-> BlockContent(body[i])]

\* a is b with some elements left out
RECURSIVE IsSubsequence(_, _)
IsSubsequence(a, b) ==
    IF a = <<>> THEN TRUE
    ELSE IF b = <<>> THEN FALSE
    ELSE IF Head(a) = Head(b) THEN IsSubsequence(Tail(a), Tail(b))
    ELSE IsSubsequence(a, Tail(b))

\* the paragraph range [start, end) the last replace_section or
\* edit_section_by_keyword resolved on the document it ran on
ResolvedStart ==
    IF last.op = "replace_section"
    THEN StartDelete(TitleIndex(Before, last.args.section_title), last.args.preserve_title)
    ELSE KeywordStartIndex(FirstParagraphContaining(Before, last.args.keyword),
                           last.args.section_range)

ResolvedEnd ==
    IF last.op = "replace_section"
    THEN SectionEndIndex(Before, TitleIndex(Before, last.args.section_title))
    ELSE KeywordEndIndex(Before, FirstParagraphContaining(Before, last.args.keyword),
                         last.args.section_range)

\* C1: on a document of paragraphs only, a successful replace_section(title,
\* new_content, preserve_title=True) leaves the paragraph texts original[0..t],
\* then new_content in its order, then original[e..], with t the index of the first
\* paragraph containing the title and e the resolved section end.
C1_ReplaceSectionTexts ==
    (/\ Ran("replace_section")
     /\ last.res = "ok"
     /\ last.args.preserve_title
     /\ OnlyParagraphs(Before))
    => LET texts == ParagraphTexts(Before)
           t == TitleIndex(Before, last.args.section_title)
           e == ResolvedEnd
       IN ParagraphTexts(After)
            = Slice(texts, 0, t + 1) \o last.args.new_content \o Slice(texts, e, Len(texts))

\* C2: replace_section and edit_section_by_keyword remove only the paragraphs of
\* the resolved range: every paragraph and table outside it is still present
\* afterwards, with the same text and in the same relative order.
C2_OnlyRangeRemoved ==
    (/\ Ran("replace_section") \/ Ran("edit_section_by_keyword")
     /\ last.res = "ok")
    => IsSubsequence(BlockContents(DeleteParagraphRange(Before, ResolvedStart, ResolvedEnd)),
                     BlockContents(After))

\* C3: delete_paragraph(i) with 0 <= i < paragraph count removes exactly the
\* paragraph at i (the count drops by one, the other paragraphs and the tables keep
\* their order); with i outside that range it returns the out-of-range message
\* and leaves the document unchanged.
C3_DeleteParagraph ==
    Ran("delete_paragraph")
    => LET i == last.args.paragraph_index
           paras == Paragraphs(Before)
       IN IF 0 <= i /\ i < Len(paras)
          THEN /\ last.res = "ok"
               /\ Len(Paragraphs(After)) = Len(paras) - 1
               /\ Paragraphs(After) = RemoveAt(paras, i + 1)
               /\ Tables(After) = Tables(Before)
          ELSE /\ last.res = "paragraph_index_out_of_range"
               /\ After = Before

\* C3 witness: a paragraph that is neither the first nor the last block was deleted
C3_Witness ==
    /\ Ran("delete_paragraph")
    /\ last.res = "ok"
    /\ last.args.paragraph_index > 0
    /\ Len(Tables(Before)) > 0
    /\ Len(Paragraphs(After)) > 0

\* C4: search_and_replace with preview_only=True leaves every paragraph text and
\* every table cell text unchanged.
C4_PreviewChangesNothing ==
    (Ran("search_and_replace") /\ last.args.preview_only) => After = Before

\* C4 witness: a preview that reported matches in a paragraph and in a table cell
C4_Witness ==
    /\ Ran("search_and_replace")
    /\ last.args.preview_only
    /\ last.res = "ok"
    /\ \E i, j \in 1..Len(last.report) :
            /\ last.report[i].type = "paragraph"
            /\ last.report[j].type = "table cell"
            /\ last.report[i].replaced # last.report[i].original

\* C5: on identical documents (tables with merged cells included), a preview and
\* an actual search_and_replace report the same number of matches at the same
\* locations.
C5_PreviewReportsSameMatches ==
    (Ran("search_and_replace") /\ ~last.args.preview_only)
    => Locations(last.report)
         = Locations(search_and_replace(Before, last.args.keyword,
                                        last.args.replace_with, TRUE).results)

\* C6: a split_table(t, row_index) with 0 <= row_index <= rows(t) - 2 adds one
\* table; the original keeps row_index + 1 rows, the new one has the other
\* rows(t) - row_index - 1, and together they are the former rows in order.
C6_SplitTable ==
    (/\ Ran("split_table")
     /\ 0 <= last.args.table_index /\ last.args.table_index < Len(Tables(Before))
     /\ 0 <= last.args.row_index
     /\ last.args.row_index <= Len(Tables(Before)[last.args.table_index + 1].rows) - 2)
    => LET t == last.args.table_index + 1
           rows == Tables(Before)[t].rows
       IN /\ Len(Tables(After)) = Len(Tables(Before)) + 1
          /\ Len(Tables(After)[t].rows) = last.args.row_index + 1
          /\ Len(Tables(After)[t + 1].rows) = Len(rows) - last.args.row_index - 1
          /\ Tables(After)[t].rows \o Tables(After)[t + 1].rows = rows

\* the number of tables of a body that have no row
EmptyTables(body) == Cardinality({i \in 1..Len(Tables(body)) : Tables(body)[i].rows = <<>>})

C8_DeleteTextRejects ==
    (/\ Ran("delete_text")
     /\ 0 <= last.args.paragraph_index
     /\ last.args.paragraph_index < Len(Paragraphs(Before))
     /\ \/ last.args.end_pos <= last.args.start_pos
        \/ last.args.start_pos < 0
        \/ last.args.start_pos
             >= Len(ParagraphTexts(Before)[last.args.paragraph_index + 1]))
    => /\ last.res \in {"start_position_out_of_range", "end_position_invalid"}
       /\ After = Before

\* C8 witness: an empty range inside the text of a paragraph was refused
C8_Witness ==
    /\ Ran("delete_text")
    /\ 0 <= last.args.paragraph_index
    /\ last.args.paragraph_index < Len(Paragraphs(Before))
    /\ 0 <= last.args.start_pos
    /\ last.args.start_pos < Len(ParagraphTexts(Before)[last.args.paragraph_index + 1])
    /\ last.args.end_pos = last.args.start_pos
    /\ last.res = "end_position_invalid"

\* C9: merge_table_cells with end_row < start_row or end_col < start_col, or with
\* a corner outside the rows or columns of the table, returns an error message
\* and leaves the table grid and every cell unchanged.
C9_MergeRejects ==
    (/\ Ran("merge_table_cells")
     /\ 0 <= last.args.table_index /\ last.args.table_index < Len(Tables(Before))
     /\ LET table == Tables(Before)[last.args.table_index + 1]
            a == last.args
        IN \/ a.end_row < a.start_row
           \/ a.end_col < a.start_col
           \/ a.start_row < 0 \/ a.start_row >= Len(table.rows)
           \/ a.end_row < 0 \/ a.end_row >= Len(table.rows)
           \/ a.start_col < 0 \/ a.start_col >= table.gridCols
           \/ a.end_col < 0 \/ a.end_col >= table.gridCols)
    => /\ last.res \in {"start_row_index_out_of_range", "start_column_index_out_of_range",
                        "end_row_index_invalid", "end_column_index_invalid"}
       /\ After = Before

\* C9 witness: a range with both corners in the table and end_row < start_row
\* was refused
C9_Witness ==
    /\ Ran("merge_table_cells")
    /\ 0 <= last.args.table_index /\ last.args.table_index < Len(Tables(Before))
    /\ LET table == Tables(Before)[last.args.table_index + 1]
           a == last.args
       IN /\ 0 <= a.end_row /\ a.end_row < a.start_row /\ a.start_row < Len(table.rows)
          /\ 0 <= a.start_col /\ a.start_col <= a.end_col /\ a.end_col < table.gridCols
    /\ last.res = "end_row_index_invalid"

\* C10: delete_table_row(t, r) with 0 <= r < n on a table of n rows leaves the
\* table with its other n - 1 rows in their order, and every other table and
\* paragraph unchanged.
C10_DeleteTableRow ==
    (/\ Ran("delete_table_row")
     /\ 0 <= last.args.table_index /\ last.args.table_index < Len(Tables(Before))
     /\ 0 <= last.args.row_index
     /\ last.args.row_index < Len(Tables(Before)[last.args.table_index + 1].rows))
    => LET t == last.args.table_index + 1
           table == Tables(Before)[t]
       IN /\ last.res = "ok"
          /\ Len(Tables(After)[t].rows) = Len(table.rows) - 1
          /\ Tables(After)[t].rows = RemoveAt(table.rows, last.args.row_index + 1)
          /\ After = SetTable(Before, last.args.table_index,
                              [table EXCEPT !.rows = Tables(After)[t].rows])

\* C10 witness: row 0 of a table of three rows was deleted, beside other blocks
C10_Witness ==
    /\ Ran("delete_table_row")
    /\ last.res = "ok"
    /\ last.args.row_index = 0
    /\ Len(Before) > 1
    /\ Len(Tables(Before)[last.args.table_index + 1].rows) = 3
    /\ Tables(After)[last.args.table_index + 1].rows
         = Tail(Tables(Before)[last.args.table_index + 1].rows)

MatchingParagraphs(body, keyword) ==
    {i \in 0..(Len(Paragraphs(body)) - 1) : Contains(keyword, ParagraphTexts(body)[i + 1])}

MatchingCells(body, keyword) ==
    {tc \in UNION {UNION {{<<t, r, c>> : c \in 0..(Len(RowCells(Tables(body)[t + 1], r + 1)) - 1)}
                            : r \in 0..(Len(Tables(body)[t + 1].rows) - 1)}
                     : t \in 0..(Len(Tables(body)) - 1)} :
        LET table == Tables(body)[tc[1] + 1]
            owner == RowCells(table, tc[2] + 1)[tc[3] + 1]
        IN Contains(keyword, CellText(table.rows[owner[1]][owner[2]]))}

\* location x is reported before location y: paragraphs before table cells,
\* paragraphs by index, cells by table index, then row, then column
LocatedBefore(x, y) ==
    \/ x.type = "paragraph" /\ y.type = "table cell"
    \/ x.type = "paragraph" /\ y.type = "paragraph" /\ x.index < y.index
    \/ /\ x.type = "table cell" /\ y.type = "table cell"
       /\ \/ x.table_index < y.table_index
          \/ x.table_index = y.table_index /\ x.row < y.row
          \/ x.table_index = y.table_index /\ x.row = y.row /\ x.column < y.column

\* C12: search_text(keyword) leaves the document unchanged and reports exactly
\* the paragraphs and table cells whose text contains the keyword, the paragraphs
\* first by ascending index, then the cells by table index, row and column; on
\* the document 'Hello World' search_text('Hello') reports one paragraph match at
\* index 0.
C12_SearchTextReport ==
    Ran("search_text")
    => /\ After = Before
       /\ {last.report[k].index : k \in {n \in 1..Len(last.report) :
                                             last.report[n].type = "paragraph"}}
            = MatchingParagraphs(Before, last.args.keyword)
       /\ {<<last.report[k].table_index, last.report[k].row, last.report[k].column>> :
                k \in {n \in 1..Len(last.report) : last.report[n].type = "table cell"}}
            = MatchingCells(Before, last.args.keyword)
       /\ \A k \in 1..Len(last.report) : last.report[k].type \in {"paragraph", "table cell"}
       /\ \A k, n \in 1..Len(last.report) :
                k < n => LocatedBefore(last.report[k], last.report[n])
       /\ (/\ Before = <<PlainParagraph("Normal",
                              <<"H", "e", "l", "l", "o", " ", "W", "o", "r", "l", "d">>)>>
           /\ last.args.keyword = <<"H", "e", "l", "l", "o">>)
            => Locations(last.report) = << <<"paragraph", 0, -1, -1, -1>> >>

\* C12 witness: a search that reported a paragraph and a table cell and passed
\* over a cell without the keyword
C12_Witness ==
    /\ Ran("search_text")
    /\ last.res = "ok"
    /\ \E k, n \in 1..Len(last.report) :
            last.report[k].type = "paragraph" /\ last.report[n].type = "table cell"
    /\ \E r \in 0..1, c \in 0..1 : <<0, r, c>> \notin MatchingCells(Before, last.args.keyword)

\* C13: replace_section with a title no paragraph contains, and
\* edit_section_by_keyword with a keyword no paragraph contains, return the
\* not-found message and leave the blocks of the document and their texts unchanged.
C13_NotFoundChangesNothing ==
    /\ (/\ Ran("replace_section")
        /\ MatchingParagraphs(Before, last.args.section_title) = {})
       => last.res = "title_not_found" /\ After = Before
    /\ (/\ Ran("edit_section_by_keyword")
        /\ MatchingParagraphs(Before, last.args.keyword) = {})
       => last.res = "keyword_not_found" /\ After = Before

\* C13 witness: a title that only a table cell holds was not found in a document
\* with paragraphs, for new content that is not empty
C13_Witness ==
    /\ Ran("replace_section")
    /\ last.res = "title_not_found"
    /\ last.args.new_content # <<>>
    /\ Len(Paragraphs(Before)) > 0
    /\ MatchingCells(Before, last.args.section_title) # {}

\* C14: while no document is open, every command other than create_document and
\* open_document returns 'No document is open' (a returned message, so nothing is
\* raised past the command) and changes neither the current document and path nor
\* any saved document nor the state file.
C14_NoDocumentRefused ==
    [][(/\ ~current_document.open
        /\ steps' = steps + 1
        /\ last'.op \notin {"create_document", "open_document"})
       => /\ last'.res = "no_document"
          /\ UNCHANGED <<current_document, current_file_path, written, state_file>>]_vars

\* C14 witness: save_document was refused while a path was set but no document was
\* open (the recorded document failed to load at the start)
C14_Witness ==
    /\ last.op = "save_document"
    /\ last.res = "no_document"
    /\ ~pre_document.open /\ ~current_document.open
    /\ current_file_path = FilePath
    /\ written = NothingWritten

\* C15: whatever the state file held when the process started, once main() has
\* run and before any command no document is open in the processor and the state
\* file does not exist.
C15_CleanStart ==
    (phase = "serving" /\ steps = 0)
    => /\ ~current_document.open
       /\ ~state_file.exists

\* the number of blocks in front of the first paragraph of the range [start, ..)
BlocksBefore(body, start) == ParagraphPositions(body)[start + 1] - 1

\* b is a paragraph that holds a line of the new content of the last command
IsNewParagraph(b) ==
    /\ IsParagraph(b)
    /\ \E i \in 1..Len(last.args.new_content) : ParaText(b) = last.args.new_content[i]

\* the last command left the blocks in front of the range where they were, and
\* the new paragraphs the document holds follow them directly, side by side
NewContentAtVacatedPosition ==
    LET v == BlocksBefore(Before, ResolvedStart)
    IN /\ Len(After) >= v
       /\ SubSeq(After, 1, v) = SubSeq(Before, 1, v)
       /\ \A k \in 1..Len(After) :
            IsNewParagraph(After[k])
            => k > v /\ \A j \in (v + 1)..k : IsNewParagraph(After[j])

\* C16: with tables in the document, a successful replace_section or
\* edit_section_by_keyword that deletes a non-empty range puts the new paragraphs
\* at the block position of the deleted range, right after the blocks that
\* preceded it: the paragraph index and the block index name the same position.
C16_InsertedAtVacatedPosition ==
    (/\ Ran("replace_section") \/ Ran("edit_section_by_keyword")
     /\ last.res = "ok"
     /\ ResolvedStart < ResolvedEnd
     /\ Tables(Before) # <<>>)
    => NewContentAtVacatedPosition

\* the anchor of the last replace_section: the first paragraph of the document it
\* ran on whose text contains section_title
Anchor == Paragraphs(Before)[TitleIndex(Before, last.args.section_title) + 1]

\* C17: a successful replace_section anchors on the first paragraph whose text
\* contains section_title; with preserve_title=True that paragraph is kept as it
\* is and the deleted range starts after it, with preserve_title=False it is the
\* first paragraph of the deleted range and is gone afterwards (stated for an
\* anchor that no other paragraph of the document equals).
C17_AnchorKeptOrDeleted ==
    (/\ Ran("replace_section")
     /\ last.res = "ok"
     /\ Cardinality({i \in 1..Len(Paragraphs(Before)) : Paragraphs(Before)[i] = Anchor}) = 1)
    => LET t == TitleIndex(Before, last.args.section_title)
       IN /\ Contains(last.args.section_title, ParaText(Anchor))
          /\ \A i \in 0..(t - 1) :
                ~Contains(last.args.section_title, ParagraphTexts(Before)[i + 1])
          /\ IF last.args.preserve_title
             THEN /\ ResolvedStart = t + 1
                  /\ \E k \in 1..Len(After) : After[k] = Anchor
             ELSE /\ ResolvedStart = t
                  /\ \A k \in 1..Len(After) : After[k] # Anchor

\* paragraph i (0-based) of body is not in after; stated for a paragraph that
\* occurs once in body and whose text is no line of the new content, which a new
\* paragraph could equal
GoneFrom(body, i, after) ==
    LET p == Paragraphs(body)[i + 1]
    IN (/\ Cardinality({j \in 1..Len(Paragraphs(body)) : Paragraphs(body)[j] = p}) = 1
        /\ ~IsNewParagraph(p))
       => \A k \in 1..Len(after) : after[k] # p

CapturedSnapshots ==
    OriginalStyles(Before, ResolvedStart, ResolvedEnd, Len(last.args.new_content))

\* C20: the captured snapshots are len(new_content) many; entry j is that of the
\* paragraph at start + j when start + j < end, else the last one captured, and
\* the default one (no style, no alignment, no run format) when the range is
\* empty; a new paragraph for line j has the style and alignment of entry j and
\* one run with the format of the first captured run (the new paragraphs are
\* told by their text, on a document that held no line of the new content).
C20_Snapshots ==
    (/\ Ran("replace_section") \/ Ran("edit_section_by_keyword")
     /\ last.res = "ok")
    => LET paras == Paragraphs(Before)
           new_content == last.args.new_content
           s == ResolvedStart
           e == ResolvedEnd
           snapshot(p) == [style |-> p.style, alignment |-> p.alignment,
                           runs |-> [i \in 1..Len(p.runs) |-> p.runs[i].fmt]]
       IN /\ Len(CapturedSnapshots) = Len(new_content)
          /\ \A j \in 0..(Len(new_content) - 1) :
                CapturedSnapshots[j + 1]
                  = IF s + j < e THEN snapshot(paras[s + j + 1])
                    ELSE IF s < e THEN snapshot(paras[e])
                    ELSE [style |-> "None", alignment |-> "None", runs |-> <<>>]
          /\ \A k \in 1..Len(After) :
                (/\ IsNewParagraph(After[k])
                 /\ \A b \in 1..Len(Before) : ~IsNewParagraph(Before[b]))
                => \E j \in 1..Len(new_content) :
                     LET entry == CapturedSnapshots[j]
                     IN /\ ParaText(After[k]) = new_content[j]
                        /\ After[k].style
                             = (IF entry.style = "None" THEN "Normal" ELSE entry.style)
                        /\ After[k].alignment = entry.alignment
                        /\ Len(After[k].runs) = 1
                        /\ After[k].runs[1].fmt
                             = (IF entry.runs = <<>> THEN DefaultFmt ELSE entry.runs[1])

\* C20 witness: two lines replaced one centred heading of two runs, the first one
\* bold: both new paragraphs are there, centred headings with one bold run
C20_Witness ==
    /\ Ran("edit_section_by_keyword")
    /\ last.res = "ok"
    /\ ResolvedEnd = ResolvedStart + 1
    /\ Paragraphs(Before)[ResolvedStart + 1] = SubTitleAB
    /\ Len(last.args.new_content) = 2
    /\ \E k \in 1..(Len(After) - 1) :
            /\ After[k] = Para("Heading 2", "center", <<Run(X, BoldFmt)>>)
            /\ After[k + 1] = Para("Heading 2", "center", <<Run(Y, BoldFmt)>>)

\* C21: after a split_table(t, row_index) with valid arguments the new table is
\* the block right after the original one, so that every later table has its
\* index grown by one; the original keeps its rows [0, row_index], the new
\* table holds the rows after them, no row is in both, and the two hold as many
\* rows as the table had.
C21_SplitPlacement ==
    (/\ Ran("split_table")
     /\ 0 <= last.args.table_index /\ last.args.table_index < Len(Tables(Before))
     /\ 0 <= last.args.row_index
     /\ last.args.row_index <= Len(Tables(Before)[last.args.table_index + 1].rows) - 2)
    => LET t == last.args.table_index + 1
           at == TablePositions(Before)[t]
           rows == Tables(Before)[t].rows
           split_position == last.args.row_index + 1
       IN /\ Len(After) = Len(Before) + 1
          /\ IsTable(After[at]) /\ IsTable(After[at + 1])
          /\ \A k \in 1..Len(Before) :
                k # at => After[IF k < at THEN k ELSE k + 1] = Before[k]
          /\ \A u \in (t + 1)..Len(Tables(Before)) : Tables(After)[u + 1] = Tables(Before)[u]
          /\ After[at].rows = SubSeq(rows, 1, split_position)
          /\ After[at + 1].rows = SubSeq(rows, split_position + 1, Len(rows))
          /\ Len(After[at].rows) + Len(After[at + 1].rows) = Len(rows)

\* the texts of the paragraphs of a body, those of the table cells included:
\* per block the text of the paragraph, or per row and cell of the table the
\* texts of the cell's paragraphs
AllTexts(body) ==
    [k \in 1..Len(body) |->
        IF IsParagraph(body[k]) THEN ParaText(body[k])
        ELSE [r \in 1..Len(body[k].rows) |->
                [c \in 1..Len(body[k].rows[r]) |->
                    [i \in 1..Len(body[k].rows[r][c].paras) |->
                        ParaText(body[k].rows[r][c].paras[i])]]]]

\* the texts of all paragraphs of a body in one sequence, body paragraphs first
EveryParagraphText(body) ==
    ParagraphTexts(body)
      \o Flatten([t \in 1..Len(Tables(body)) |->
            Flatten([r \in 1..Len(Tables(body)[t].rows) |->
                Flatten([c \in 1..Len(Tables(body)[t].rows[r]) |->
                    [i \in 1..Len(Tables(body)[t].rows[r][c].paras) |->
                        ParaText(Tables(body)[t].rows[r][c].paras[i])]])])])

\* C22: the count find_and_replace returns is the sum, over the paragraphs and
\* table-cell paragraphs that contained find_text, of the number of occurrences
\* of replace_text in the paragraph's text after the substitution.
C22_RecountedOccurrences ==
    Ran("find_and_replace")
    => LET before == EveryParagraphText(Before)
           after == EveryParagraphText(After)
           counts == [i \in 1..Len(before) |->
                        IF Contains(last.args.find_text, before[i])
                        THEN StrCount(after[i], last.args.replace_text) ELSE 0]
       IN /\ Len(after) = Len(before)
          /\ last.report = <<SumTo(counts, Len(counts))>>

\* C23: find_and_replace(k, r) leaves every paragraph and every table-cell
\* paragraph with the text search_and_replace(k, r, preview_only=False) leaves
\* on the same document, and the other way round.
C23_SameTextsAsSearchAndReplace ==
    /\ Ran("find_and_replace")
       => AllTexts(After)
            = AllTexts(search_and_replace(Before, last.args.find_text,
                                          last.args.replace_text, FALSE).doc)
    /\ (Ran("search_and_replace") /\ ~last.args.preview_only)
       => AllTexts(After)
            = AllTexts(find_and_replace(Before, last.args.keyword,
                                        last.args.replace_with).doc)

\* C23 witness: a find_and_replace changed the text of a paragraph and of a
\* table cell, in a document with a cell reached at two columns
C23_Witness ==
    /\ Ran("find_and_replace")
    /\ ParagraphTexts(After) # ParagraphTexts(Before)
    /\ \E t \in 1..Len(Tables(Before)) :
            /\ Len(RowCells(Tables(Before)[t], 1)) > Len(Tables(Before)[t].rows[1])
            /\ Tables(After)[t] # Tables(Before)[t]

\* C24: a replace_section or edit_section_by_keyword that fails after the range
\* was deleted returns a failure message and leaves the document as the steps
\* before the failure made it: the paragraphs of the range are not put back, and
\* the document holds what the insertion of the lines handled before the failure
\* left, followed by the paragraph made for the line that failed.
C24_NoRollback ==
    (/\ Ran("replace_section") \/ Ran("edit_section_by_keyword")
     /\ last.res = "failed")
    => LET new_content == last.args.new_content
           bad == CHOOSE k \in 1..Len(new_content) :
                     /\ ~XmlCompatible(new_content[k])
                     /\ \A j \in (k + 1)..Len(new_content) : XmlCompatible(new_content[j])
           handled == SubSeq(new_content, bad + 1, Len(new_content))
           texts == ParagraphTexts(After)
       IN /\ \E k \in 1..Len(new_content) : ~XmlCompatible(new_content[k])
          \* (a paragraph without text could be the one made for the failed line)
          /\ \A i \in ResolvedStart..(ResolvedEnd - 1) :
                ParagraphTexts(Before)[i + 1] # <<>> => GoneFrom(Before, i, After)
          /\ texts # <<>> /\ texts[Len(texts)] = <<>>
          /\ SubSeq(texts, 1, Len(texts) - 1)
               = ParagraphTexts(ReplaceRange(Before, ResolvedStart, ResolvedEnd, handled))

\* C24 witness: the first of two lines could not be stored; the range is gone
\* and the second line, inserted before the failure, is in the document
C24_Witness ==
    /\ Ran("replace_section")
    /\ last.res = "failed"
    /\ ResolvedEnd - ResolvedStart = 2
    /\ Len(Paragraphs(After)) < Len(Paragraphs(Before))
    /\ \E k \in 1..Len(After) : IsParagraph(After[k]) /\ ParaText(After[k]) = Y

\* C25: a create_document or open_document that returns a failure message (the
\* file does not exist, or loading or saving it raised) leaves the session as it
\* was: the current document and the current path are those of before the call.
C25_FailedCreateOrOpenKeepsSession ==
    [][(/\ steps' = steps + 1
        /\ last'.op \in {"create_document", "open_document"}
        /\ last'.res # "ok")
       => UNCHANGED <<current_document, current_file_path>>]_vars

\* C26: delete_text(p, s, e) with 0 <= s < e <= the length of the text of
\* paragraph p succeeds and sets that text to text[0..s) followed by text[e..),
\* e - s characters shorter, with the paragraph count, the text of every other
\* paragraph and the tables as they were; with e greater than the length the
\* call is refused and the document unchanged.
C26_DeleteText ==
    (/\ Ran("delete_text")
     /\ 0 <= last.args.paragraph_index
     /\ last.args.paragraph_index < Len(Paragraphs(Before)))
    => LET p == last.args.paragraph_index + 1
           start == last.args.start_pos
           end == last.args.end_pos
           text == ParagraphTexts(Before)[p]
       IN /\ (0 <= start /\ start < end /\ end <= Len(text))
             => /\ last.res = "ok"
                /\ Len(Paragraphs(After)) = Len(Paragraphs(Before))
                /\ ParagraphTexts(After)[p]
                     = [i \in 1..(Len(text) - (end - start)) |->
                            IF i <= start THEN text[i] ELSE text[i + (end - start)]]
                /\ \A q \in 1..Len(Paragraphs(Before)) :
                        q # p => Paragraphs(After)[q] = Paragraphs(Before)[q]
                /\ Tables(After) = Tables(Before)
                /\ ParagraphPositions(After) = ParagraphPositions(Before)
          /\ end > Len(text)
             => /\ last.res \in {"start_position_out_of_range", "end_position_invalid"}
                /\ After = Before

\* C26 witness: the first of the two characters of a paragraph was deleted, in a
\* document with another paragraph
C26_Witness ==
    /\ Ran("delete_text")
    /\ last.res = "ok"
    /\ last.args.start_pos = 0 /\ last.args.end_pos = 1
    /\ Len(Paragraphs(Before)) > 1
    /\ ParagraphTexts(Before)[last.args.paragraph_index + 1] = AB
    /\ ParagraphTexts(After)[last.args.paragraph_index + 1] = B

============================================================================
